---- MODULE Spec2Model ----
(***************************************************************************)
(* LuDock: loader, DSL parser, canonical JSON, diff input and the pipeline *)
(* driver (src/core/*.rs, src/commands/run.rs) as a state machine.         *)
(*                                                                         *)
(* Conventions                                                             *)
(*   - A raw file name is the sequence of its dot-separated segments:      *)
(*     "widgets.model" is <<"widgets", "model">>, ".DS_Store" is           *)
(*     <<"", "DS_Store">>.  Path::file_stem, Path::extension, rfind('.')   *)
(*     and ends_with(".x") are computed on the segments.                   *)
(*   - A number is an integer count of ticks, Unit ticks to 1.0.           *)
(*   - Option<T> is a sequence: <<>> is None, <<v>> is Some(v).            *)
(*   - A HashMap is a function; the order in which it is iterated is a     *)
(*     nondeterministic permutation of its keys (std RandomState).         *)
(***************************************************************************)
EXTENDS Integers, Sequences, FiniteSets, TLC

VARIABLES
    fs,        \* loader: the project's game/ directory, path -> node
    phase,     \* loader: "edit", "loaded", "saved1", "saved2"
    tree,      \* loader: <<>> or <<the Instance load_project returned>>
    json1,     \* loader: world.json text of a first serialisation
    json2,     \* loader: world.json text of a second load + serialisation
    pv,        \* serde: <<>> or <<a PropertyValue>>
    pvJson,    \* serde: <<>> or <<its canonical JSON>>
    pvBack,    \* serde: <<>> or <<what deserialising pvJson returned>>
    literal,   \* serde: <<>> or <<the DSL literal pv was parsed from>>
    oldTree,   \* diff: the tree of the previous run
    newTree,   \* diff: the tree of this run
    report,    \* diff: <<>> or <<the DiffReport compare_worlds returned>>
    game,      \* pipeline: index of the project on disk, 0 = no game/
    results,   \* pipeline: results/ directory, file name -> Option<content>
    run,       \* pipeline: what the last run_project did
    opts,      \* preset: the RunOptions bag
    preset,    \* preset: <<>> or <<the apply_preset call made: name, bag before, Ok / Err>>
    ctx,       \* raster: the RenderContext (width, height, image, z_buffer)
    draws,     \* raster: the draw_pixel calls made since clear
    gui,       \* overlay: <<>> or <<the tree handed to draw_ui_overlay>>
    rects,     \* overlay: <<>> or <<the rectangles it filled, in order>>
    outLine,   \* analysis: <<>> or <<an output line of the analyzer>>
    diagnostic \* analysis: <<>> or <<what parse_luau_line returned for it>>

vars == <<fs, phase, tree, json1, json2, pv, pvJson, pvBack, literal,
          oldTree, newTree, report, game, results, run,
          opts, preset, ctx, draws, gui, rects, outLine, diagnostic>>
loaderVars == <<fs, phase, tree, json1, json2>>
serdeVars == <<pv, pvJson, pvBack, literal>>
diffVars == <<oldTree, newTree, report>>
pipeVars == <<game, results, run>>
presetVars == <<opts, preset>>
rasterVars == <<ctx, draws>>
guiVars == <<gui, rects>>
lintVars == <<outLine, diagnostic>>
toolVars == <<presetVars, rasterVars, guiVars, lintVars>>

(***************************************************************************)
(* Generic helpers                                                         *)
(***************************************************************************)
None == <<>>
Some(v) == <<v>>
IsSome(o) == Len(o) = 1
Get(o) == o[1]

Last(s) == s[Len(s)]
Front(s) == SubSeq(s, 1, Len(s) - 1)
Range(s) == {s[i] : i \in 1..Len(s)}

RECURSIVE JoinWith(_, _)
JoinWith(segs, sep) ==
    IF Len(segs) = 0 THEN ""
    ELSE IF Len(segs) = 1 THEN segs[1]
    ELSE segs[1] \o sep \o JoinWith(Tail(segs), sep)

RECURSIVE Concat(_)
Concat(chars) == IF Len(chars) = 0 THEN "" ELSE chars[1] \o Concat(Tail(chars))

IsPrefix(p, s) == Len(p) <= Len(s) /\ SubSeq(s, 1, Len(p)) = p

Perms(S) == {p \in [1..Cardinality(S) -> S] : \A x \in S : \E i \in DOMAIN p : p[i] = x}

Unit == 2 * 1000

(***************************************************************************)
(* Data model (src/core/datamodel.rs)                                      *)
(***************************************************************************)
\* uuid v5 of the seed under NAMESPACE_OID: a pure, injective function of
\* the seed, kept as the seed it hashes.
Uuid_new_v5(seed) == [v5 |-> seed]

Instance_new(name, class_name, path_hash_seed) ==
    [id |-> Uuid_new_v5(path_hash_seed),
     name |-> name,
     class_name |-> class_name,
     properties |-> <<>>,
     children |-> <<>>,
     full_path |-> "",
     world_bounds |-> None,
     center |-> None]

PvString(s) == [tag |-> "String", v |-> s]
PvBool(b) == [tag |-> "Bool", v |-> b]
PvNumber(n) == [tag |-> "Number", v |-> n]
PvVector3(x, y, z) == [tag |-> "Vector3", v |-> [x |-> x, y |-> y, z |-> z]]
PvCFrame(cf) == [tag |-> "CFrame", v |-> cf]
PvColor3(c) == [tag |-> "Color3", v |-> c]
PvUDim2(xs, xo, ys, yo) == [tag |-> "UDim2", v |-> [xs |-> xs, xo |-> xo, ys |-> ys, yo |-> yo]]
PvEnum(s) == [tag |-> "Enum", v |-> s]

\* derive(PartialEq): same variant and equal payload.
PvEq(a, b) == a.tag = b.tag /\ a.v = b.v

CFrameWrapper_new(x, y, z) ==
    [position |-> [x |-> x, y |-> y, z |-> z],
     components |-> <<x, y, z, Unit, 0, 0, 0, Unit, 0, 0, 0, Unit>>]

\* Colour channels are kept in 1/255 of a tick, so that r / 255.0 is exact.
Color3Wrapper_from_rgb(r, g, b) == [r |-> r, g |-> g, b |-> b]
Color3Wrapper_new(r, g, b) == [r |-> 255 * r, g |-> 255 * g, b |-> 255 * b]

(***************************************************************************)
(* DSL parser (src/core/parser.rs).  A DSL text is the sequence of its     *)
(* whitespace-separated statements `key = literal`; a literal is           *)
(*   word    a bare [A-Za-z_][A-Za-z0-9_]* run, txt = its characters       *)
(*   quoted  "..." , txt = <<contents>>                                    *)
(*   number  -?digits(.digits)?, args = <<ticks>>                          *)
(*   call    Name.ctor(n, ..), txt = <<"Name.ctor">>, args = the numbers   *)
(*   enum    Enum.T.I, txt = <<"T", "I">>                                  *)
(*   junk    text no alternative of parse_value accepts                    *)
(***************************************************************************)
Lit(kind, txt, args) == [lit |-> kind, txt |-> txt, args |-> args]
Word(chars) == Lit("word", chars, <<>>)
Quoted(s) == Lit("quoted", <<s>>, <<>>)
Num(n) == Lit("number", <<>>, <<n>>)
Call(fn, args) == Lit("call", <<fn>>, args)
EnumLit(t, i) == Lit("enum", <<t, i>>, <<>>)
Junk == Lit("junk", <<>>, <<>>)
Stmt(k, l) == [key |-> k, val |-> l]

\* A parse result: ok, the value, and the characters of the literal that
\* the parser left unconsumed (nom returns the rest of the input).
POk(v, rest) == [ok |-> TRUE, value |-> <<v>>, rest |-> rest]
PErr == [ok |-> FALSE, value |-> <<>>, rest |-> <<>>]

\* `xo as i32`: f64 -> i32 truncates toward zero.
AsI32(n) == IF n >= 0 THEN n \div Unit ELSE -((-n) \div Unit)

parse_bool(l) ==
    IF l.lit = "word" /\ IsPrefix(<<"t", "r", "u", "e">>, l.txt)
        THEN POk(TRUE, SubSeq(l.txt, 5, Len(l.txt)))
    ELSE IF l.lit = "word" /\ IsPrefix(<<"f", "a", "l", "s", "e">>, l.txt)
        THEN POk(FALSE, SubSeq(l.txt, 6, Len(l.txt)))
    ELSE PErr

IsCall(l, fn, n) == l.lit = "call" /\ l.txt = <<fn>> /\ Len(l.args) = n

parse_vector3(l) ==
    IF IsCall(l, "Vector3.new", 3)
        THEN POk(PvVector3(l.args[1], l.args[2], l.args[3]), <<>>)
    ELSE PErr

parse_cframe(l) ==
    IF IsCall(l, "CFrame.new", 3)
        THEN POk(PvCFrame(CFrameWrapper_new(l.args[1], l.args[2], l.args[3])), <<>>)
    ELSE PErr

\* The arguments of Color3.fromRGB are plain numbers 0..255, here in units.
parse_color3_from_rgb(l) ==
    IF IsCall(l, "Color3.fromRGB", 3)
        THEN POk(PvColor3(Color3Wrapper_from_rgb(l.args[1], l.args[2], l.args[3])), <<>>)
    ELSE PErr

parse_color3_new(l) ==
    IF IsCall(l, "Color3.new", 3)
        THEN POk(PvColor3(Color3Wrapper_new(l.args[1], l.args[2], l.args[3])), <<>>)
    ELSE PErr

parse_udim2(l) ==
    IF IsCall(l, "UDim2.new", 4)
        THEN POk(PvUDim2(l.args[1], AsI32(l.args[2]), l.args[3], AsI32(l.args[4])), <<>>)
    ELSE PErr

parse_enum(l) ==
    IF l.lit = "enum"
        THEN POk(PvEnum("Enum." \o l.txt[1] \o "." \o l.txt[2]), <<>>)
    ELSE PErr

parse_number(l) == IF l.lit = "number" THEN POk(l.args[1], <<>>) ELSE PErr

parse_string(l) == IF l.lit = "quoted" THEN POk(l.txt[1], <<>>) ELSE PErr

parse_identifier(l) == IF l.lit = "word" THEN POk(Concat(l.txt), <<>>) ELSE PErr

MapOk(r, F(_)) == IF r.ok THEN POk(F(Get(r.value)), r.rest) ELSE PErr

RECURSIVE Alt(_, _)
Alt(alts, i) ==
    IF i > Len(alts) THEN PErr
    ELSE IF alts[i].ok THEN alts[i]
    ELSE Alt(alts, i + 1)

\* alt((..)): the first alternative that succeeds, in the listed order.
parse_value(l) ==
    Alt(<<MapOk(parse_bool(l), PvBool),
          parse_vector3(l),
          parse_cframe(l),
          parse_color3_from_rgb(l),
          parse_color3_new(l),
          parse_udim2(l),
          parse_enum(l),
          MapOk(parse_number(l), PvNumber),
          MapOk(parse_string(l), PvString),
          MapOk(parse_identifier(l), PvString)>>, 1)

parse_assignment(st) ==
    LET r == parse_value(st.val)
    IN  IF r.ok THEN POk(<<st.key, Get(r.value)>>, r.rest) ELSE PErr

\* A parser that keeps nothing of a text that holds a failing statement.
all_or_nothing_assignments(text) ==
    IF \E i \in 1..Len(text) : ~parse_assignment(text[i]).ok THEN <<>>
    ELSE [i \in 1..Len(text) |-> Get(parse_assignment(text[i]).value)]

\* many0(parse_assignment): the pairs parsed up to the first failure.  A
\* value that leaves characters of its word unconsumed makes the next
\* parse_assignment read them as a key that no '=' follows, so it fails.
RECURSIVE many0_assignments(_)
many0_assignments(text) ==
    IF Len(text) = 0 THEN <<>>
    ELSE LET r == parse_assignment(Head(text))
         IN  IF ~r.ok THEN <<>>
             ELSE IF Len(r.rest) > 0 THEN <<Get(r.value)>>
             ELSE <<Get(r.value)>> \o many0_assignments(Tail(text))

\* map.insert(k, v) over the pairs in order: the last value of a key wins.
MapOfPairs(pairs) ==
    [k \in {pairs[i][1] : i \in 1..Len(pairs)} |->
        LET last == CHOOSE i \in 1..Len(pairs) :
                        /\ pairs[i][1] = k
                        /\ \A j \in (i + 1)..Len(pairs) : pairs[j][1] # k
        IN  pairs[last][2]]

\* many0 never fails, so the result is always Ok((rest, map)).
parse_instance_dsl(text) == MapOfPairs(many0_assignments(text))

(***************************************************************************)
(* The project on disk.  A game/ directory is a function from the path of  *)
(* an entry (the raw names below game/) to its node.                       *)
(***************************************************************************)
\* Every raw file name of the model, in ascending byte order: the order
\* entries.sort_by_key(|entry| entry.file_name()) produces.
FileNames ==
    << <<"", "DS_Store">>,
       <<"A", "part">>,
       <<"B", "part">>,
       <<"Lighting">>,
       <<"Main", "gui", "d">>,
       <<"Panel", "frame">>,
       <<"README">>,
       <<"ServerScriptService">>,
       <<"StarterGui">>,
       <<"Workspace">>,
       <<"a", "server", "server", "lua">>,
       <<"data", "json">>,
       <<"main", "server", "lua">>,
       <<"notes", "txt">>,
       <<"stuff">>,
       <<"widgets", "model">> >>

Rank(raw) == CHOOSE i \in 1..Len(FileNames) : FileNames[i] = raw

\* A file is its text (raw) and the statements the DSL parser meets in it.
DirNode == [kind |-> "dir", raw |-> "", stmts |-> <<>>]
FileNode(raw, stmts) == [kind |-> "file", raw |-> raw, stmts |-> stmts]

EmptyGame == <<>>
WithEntry(f, path, node) ==
    [p \in DOMAIN f \cup {path} |-> IF p = path THEN node ELSE f[p]]

IsDir(f, path) == path = <<>> \/ (path \in DOMAIN f /\ f[path].kind = "dir")
EntryNames(f, dir) ==
    {p[Len(p)] : p \in {q \in DOMAIN f : Len(q) = Len(dir) + 1 /\ Front(q) = dir}}

\* std::path::Path::file_stem / extension (rsplit_file_at_dot): no dot, or
\* only a leading dot, gives the whole name and no extension.
HasExt(raw) == Len(raw) > 1 /\ ~(Len(raw) = 2 /\ raw[1] = "")
file_stem(raw) == IF HasExt(raw) THEN Front(raw) ELSE raw
extension(raw) == IF HasExt(raw) THEN Some(Last(raw)) ELSE None

\* The directory the run starts in; entry.path() is below it.
RootPath == "/proj"
path_str(path) ==
    RootPath \o "/game/" \o JoinWith([i \in 1..Len(path) |-> JoinWith(path[i], ".")], "/")

(***************************************************************************)
(* Loader (src/core/loader.rs)                                             *)
(***************************************************************************)
map_extension_to_class(ext) ==
    CASE ext = "basepart" -> "Part"
      [] ext = "part" -> "Part"
      [] ext = "model" -> "Model"
      [] ext = "folder" -> "Folder"
      [] ext = "script" -> "Script"
      [] ext = "localscript" -> "LocalScript"
      [] ext = "modulescript" -> "ModuleScript"
      [] ext = "gui" -> "ScreenGui"
      [] ext = "frame" -> "Frame"
      [] ext = "button" -> "TextButton"
      [] ext = "label" -> "TextLabel"
      [] OTHER -> "Folder"

ServiceNames ==
    {"Workspace", "Lighting", "ReplicatedStorage", "ReplicatedFirst",
     "ServerScriptService", "ServerStorage", "StarterGui", "StarterPack",
     "StarterPlayer", "SoundService"}

\* name is a stem, as segments: name.rfind('.') is Some iff it has more
\* than one segment, and &name[idx + 1..] is then its last segment.
infer_class_from_name(name, is_dir) ==
    IF Len(name) > 1 /\ map_extension_to_class(Last(name)) # "Folder"
        THEN map_extension_to_class(Last(name))
    ELSE IF JoinWith(name, ".") \in ServiceNames THEN JoinWith(name, ".")
    ELSE IF is_dir THEN "Folder"
    ELSE "Unknown"

clean_name(name) ==
    IF Len(name) > 1 /\ map_extension_to_class(Last(name)) # "Folder"
        THEN JoinWith(Front(name), ".")
    ELSE JoinWith(name, ".")

\* name.ends_with(".x"): the last segment is x and a dot precedes it.
ends_with_dot(name, x) == Len(name) > 1 /\ Last(name) = x

\* name.trim_end_matches(".x"): strips the suffix as often as it occurs.
RECURSIVE trim_end_matches_dot(_, _)
trim_end_matches_dot(name, x) ==
    IF ends_with_dot(name, x) THEN trim_end_matches_dot(Front(name), x) ELSE name

\* The entries of dir without the sort of line 49, here in descending order.
unsorted_entries(f, dir) ==
    LET names == SelectSeq(FileNames, LAMBDA raw : raw \in EntryNames(f, dir))
    IN  [i \in 1..Len(names) |-> names[Len(names) + 1 - i]]

\* read_dir + sort_by_key(file_name): the entries of dir by ascending name.
sorted_entries(f, dir) ==
    SelectSeq(FileNames, LAMBDA raw : raw \in EntryNames(f, dir))

ScriptInstance(name, suffix, class_name, path, node) ==
    [Instance_new(JoinWith(trim_end_matches_dot(name, suffix), "."), class_name,
                  path_str(path))
        EXCEPT !.properties = [k \in {"Source"} |-> PvString(node.raw)]]

\* The declarative branch: the class of the extension, then the parsed
\* properties with the ClassName / Name overrides (a String value only).
DslInstance(name, ext, path, node, parent_full_path) ==
    LET props == parse_instance_dsl(node.stmts)
        IsStr(k) == k \in DOMAIN props /\ props[k].tag = "String"
        class_name == IF IsStr("ClassName") THEN props["ClassName"].v
                      ELSE map_extension_to_class(ext)
        final_name == IF IsStr("Name") THEN props["Name"].v
                      ELSE JoinWith(name, ".")
    IN  [Instance_new(final_name, class_name, path_str(path))
            EXCEPT !.properties = props,
                   !.full_path = parent_full_path \o "/" \o final_name]

RECURSIVE load_directory(_, _, _)
RECURSIVE load_entries(_, _, _, _)

\* One iteration of the loop of load_directory: the instances (none or
\* one) the entry adds to children.
load_entry(f, dir, raw, parent_full_path) ==
    LET path == Append(dir, raw)
        node == f[path]
        name == file_stem(raw)
        ext == IF IsSome(extension(raw)) THEN Get(extension(raw)) ELSE ""
    IN  IF node.kind = "dir" THEN
            LET current_full_path == parent_full_path \o "/" \o clean_name(name)
            IN  <<[Instance_new(clean_name(name), infer_class_from_name(name, TRUE),
                                path_str(path))
                    EXCEPT !.full_path = current_full_path,
                           !.children = load_directory(f, path, current_full_path)]>>
        ELSE IF ext = "json" \/ ext = "" THEN <<>>
        ELSE IF ends_with_dot(name, "server") /\ ext = "lua"
            THEN <<ScriptInstance(name, "server", "Script", path, node)>>
        ELSE IF ends_with_dot(name, "local") /\ ext = "lua"
            THEN <<ScriptInstance(name, "local", "LocalScript", path, node)>>
        ELSE IF ends_with_dot(name, "module") /\ ext = "lua"
            THEN <<ScriptInstance(name, "module", "ModuleScript", path, node)>>
        ELSE <<DslInstance(name, ext, path, node, parent_full_path)>>

load_entries(f, dir, names, parent_full_path) ==
    IF Len(names) = 0 THEN <<>>
    ELSE load_entry(f, dir, Head(names), parent_full_path)
            \o load_entries(f, dir, Tail(names), parent_full_path)

load_directory(f, dir, parent_full_path) ==
    load_entries(f, dir, sorted_entries(f, dir), parent_full_path)

(***************************************************************************)
(* Enrichment (compute_derived_data)                                       *)
(***************************************************************************)
Vec3(x, y, z) == [x |-> x, y |-> y, z |-> z]
Min2(a, b) == IF a <= b THEN a ELSE b
Max2(a, b) == IF a >= b THEN a ELSE b
VMin(a, b) == Vec3(Min2(a.x, b.x), Min2(a.y, b.y), Min2(a.z, b.z))
VMax(a, b) == Vec3(Max2(a.x, b.x), Max2(a.y, b.y), Max2(a.z, b.z))
Aabb(lo, hi) == [min |-> lo, max |-> hi]

IsPart(instance) == instance.class_name = "Part" \/ instance.class_name = "BasePart"
HasProp(instance, k, tag) ==
    k \in DOMAIN instance.properties /\ instance.properties[k].tag = tag

DefaultSize == Vec3(4 * Unit, 1 * Unit, 2 * Unit)
part_size(instance) ==
    IF HasProp(instance, "Size", "Vector3") THEN instance.properties["Size"].v
    ELSE DefaultSize

\* The world transform as <<translation, rows of the 3x3 basis>>: CFrame
\* components [tx,ty,tz, r00..r22], else Position, else identity.
Identity3 == <<Unit, 0, 0, 0, Unit, 0, 0, 0, Unit>>
part_transform(instance) ==
    IF HasProp(instance, "CFrame", "CFrame") THEN
        LET c == instance.properties["CFrame"].v.components
        IN  [t |-> Vec3(c[1], c[2], c[3]), r |-> SubSeq(c, 4, 12)]
    ELSE IF HasProp(instance, "Position", "Vector3") THEN
        [t |-> instance.properties["Position"].v, r |-> Identity3]
    ELSE [t |-> Vec3(0, 0, 0), r |-> Identity3]

\* Mat4::transform_point3 of a local corner.
transform_point3(m, v) ==
    Vec3(m.t.x + (m.r[1] * v.x + m.r[2] * v.y + m.r[3] * v.z) \div Unit,
         m.t.y + (m.r[4] * v.x + m.r[5] * v.y + m.r[6] * v.z) \div Unit,
         m.t.z + (m.r[7] * v.x + m.r[8] * v.y + m.r[9] * v.z) \div Unit)

Corners(size) ==
    LET hx == size.x \div 2
        hy == size.y \div 2
        hz == size.z \div 2
    IN  <<Vec3(-hx, -hy, -hz), Vec3(hx, -hy, -hz), Vec3(-hx, hy, -hz), Vec3(hx, hy, -hz),
          Vec3(-hx, -hy, hz), Vec3(hx, -hy, hz), Vec3(-hx, hy, hz), Vec3(hx, hy, hz)>>

\* Folding min / max over boxes; acc is None while has_bounds is false
\* (my_min = +inf, my_max = -inf give way to the first box).
RECURSIVE MergeBoxes(_, _)
MergeBoxes(acc, boxes) ==
    IF Len(boxes) = 0 THEN acc
    ELSE LET b == Head(boxes)
             next == IF IsSome(acc)
                         THEN Aabb(VMin(Get(acc).min, b.min), VMax(Get(acc).max, b.max))
                     ELSE b
         IN  MergeBoxes(Some(next), Tail(boxes))

own_boxes(instance) ==
    IF IsPart(instance) THEN
        LET m == part_transform(instance)
            cs == Corners(part_size(instance))
        IN  [i \in 1..8 |-> LET p == transform_point3(m, cs[i]) IN Aabb(p, p)]
    ELSE <<>>

\* compute_derived_data without step 2: an instance gets the box of its own
\* corners only and the bounds of its children are not folded in.
RECURSIVE own_bounds_only(_)
own_bounds_only(instance) ==
    LET kids == [i \in 1..Len(instance.children) |->
                    own_bounds_only(instance.children[i])]
        bounds == MergeBoxes(None, own_boxes(instance))
    IN  IF IsSome(bounds) THEN
            LET b == Get(bounds)
            IN  [instance EXCEPT
                    !.children = kids,
                    !.center = Some(Vec3((b.min.x + b.max.x) \div 2,
                                         (b.min.y + b.max.y) \div 2,
                                         (b.min.z + b.max.z) \div 2)),
                    !.world_bounds = Some(b)]
        ELSE [instance EXCEPT !.children = kids]

RECURSIVE compute_derived_data(_)
compute_derived_data(instance) ==
    LET kids == [i \in 1..Len(instance.children) |->
                    compute_derived_data(instance.children[i])]
        withBounds == SelectSeq(kids, LAMBDA c : IsSome(c.world_bounds))
        childBoxes == [i \in 1..Len(withBounds) |-> Get(withBounds[i].world_bounds)]
        bounds == MergeBoxes(MergeBoxes(None, own_boxes(instance)), childBoxes)
    IN  IF IsSome(bounds) THEN
            LET b == Get(bounds)
            IN  [instance EXCEPT
                    !.children = kids,
                    !.center = Some(Vec3((b.min.x + b.max.x) \div 2,
                                         (b.min.y + b.max.y) \div 2,
                                         (b.min.z + b.max.z) \div 2)),
                    !.world_bounds = Some(b)]
        ELSE [instance EXCEPT !.children = kids]

\* load_project without the check of lines 10-12: a missing game/ loads as
\* an empty tree.
load_project_unchecked(g) ==
    [ok |-> TRUE,
     val |-> <<compute_derived_data(
                [Instance_new("DataModel", "DataModel", "game")
                    EXCEPT !.full_path = "game",
                           !.children = IF IsSome(g) THEN load_directory(Get(g), <<>>, "game")
                                        ELSE <<>>])>>]

\* load_project: g is None when the root has no game/ directory.
ROk(v) == [ok |-> TRUE, val |-> <<v>>]
RErr(e) == [ok |-> FALSE, val |-> <<e>>]
load_project(g) ==
    IF ~IsSome(g) THEN RErr("Game directory not found")
    ELSE ROk(compute_derived_data(
            [Instance_new("DataModel", "DataModel", "game")
                EXCEPT !.full_path = "game",
                       !.children = load_directory(Get(g), <<>>, "game")]))

(***************************************************************************)
(* Canonical JSON (serde derive on src/core/datamodel.rs).  A JSON text is *)
(* kept as its syntax tree; the members of an object are a sequence of     *)
(* <<key, value>> in the order they are written.                           *)
(***************************************************************************)
JStr(s) == [j |-> "string", v |-> s]
JBool(b) == [j |-> "bool", v |-> b]
JFloat(n) == [j |-> "float", v |-> n]
JInt(n) == [j |-> "int", v |-> n]
JNull == [j |-> "null", v |-> <<>>]
JArr(items) == [j |-> "array", v |-> items]
JObj(members) == [j |-> "object", v |-> members]

JHas(o, k) == o.j = "object" /\ \E i \in 1..Len(o.v) : o.v[i][1] = k
JField(o, k) == o.v[CHOOSE i \in 1..Len(o.v) : o.v[i][1] = k][2]
JIsNum(x) == x.j = "float" \/ x.j = "int"
JHasNum(o, k) == JHas(o, k) /\ JIsNum(JField(o, k))

ser_vec3(v) == JObj(<< <<"x", JFloat(v.x)>>, <<"y", JFloat(v.y)>>, <<"z", JFloat(v.z)>> >>)
ser_aabb(b) == JObj(<< <<"min", ser_vec3(b.min)>>, <<"max", ser_vec3(b.max)>> >>)
ser_option(o, F(_)) == IF IsSome(o) THEN F(Get(o)) ELSE JNull

\* #[serde(untagged)]: the payload alone, without the variant's name.
ser_property_value(p) ==
    CASE p.tag = "String" -> JStr(p.v)
      [] p.tag = "Bool" -> JBool(p.v)
      [] p.tag = "Number" -> JFloat(p.v)
      [] p.tag = "Vector3" -> ser_vec3(p.v)
      [] p.tag = "CFrame" ->
            JObj(<< <<"position", ser_vec3(p.v.position)>>,
                    <<"components",
                      JArr([i \in 1..Len(p.v.components) |-> JFloat(p.v.components[i])])>> >>)
      [] p.tag = "Color3" ->
            JObj(<< <<"r", JFloat(p.v.r)>>, <<"g", JFloat(p.v.g)>>, <<"b", JFloat(p.v.b)>> >>)
      [] p.tag = "UDim2" ->
            JObj(<< <<"xs", JFloat(p.v.xs)>>, <<"xo", JInt(p.v.xo)>>,
                    <<"ys", JFloat(p.v.ys)>>, <<"yo", JInt(p.v.yo)>> >>)
      [] p.tag = "Enum" -> JStr(p.v)

de_vec3(x) ==
    IF JHasNum(x, "x") /\ JHasNum(x, "y") /\ JHasNum(x, "z")
        THEN ROk(Vec3(JField(x, "x").v, JField(x, "y").v, JField(x, "z").v))
    ELSE RErr("Vec3Wrapper")

de_cframe(x) ==
    IF /\ JHas(x, "position") /\ de_vec3(JField(x, "position")).ok
       /\ JHas(x, "components") /\ JField(x, "components").j = "array"
       /\ Len(JField(x, "components").v) = 12
       /\ \A i \in 1..12 : JIsNum(JField(x, "components").v[i])
        THEN ROk([position |-> Get(de_vec3(JField(x, "position")).val),
                  components |-> [i \in 1..12 |-> JField(x, "components").v[i].v]])
    ELSE RErr("CFrameWrapper")

de_color3(x) ==
    IF JHasNum(x, "r") /\ JHasNum(x, "g") /\ JHasNum(x, "b")
        THEN ROk([r |-> JField(x, "r").v, g |-> JField(x, "g").v, b |-> JField(x, "b").v])
    ELSE RErr("Color3Wrapper")

\* xo, yo are i32: a JSON float is not accepted for them.
de_udim2(x) ==
    IF /\ JHasNum(x, "xs") /\ JHasNum(x, "ys")
       /\ JHas(x, "xo") /\ JField(x, "xo").j = "int"
       /\ JHas(x, "yo") /\ JField(x, "yo").j = "int"
        THEN ROk([xs |-> JField(x, "xs").v, xo |-> JField(x, "xo").v,
                  ys |-> JField(x, "ys").v, yo |-> JField(x, "yo").v])
    ELSE RErr("UDim2Wrapper")

Tagged(tag, r) == IF r.ok THEN ROk([tag |-> tag, v |-> Get(r.val)]) ELSE r

RECURSIVE FirstOk(_, _)
FirstOk(tries, i) ==
    IF i > Len(tries) THEN RErr("data did not match any variant of untagged enum")
    ELSE IF tries[i].ok THEN tries[i]
    ELSE FirstOk(tries, i + 1)

\* An untagged enum is read by trying its variants in declaration order.
de_property_value(x) ==
    FirstOk(<<IF x.j = "string" THEN ROk(PvString(x.v)) ELSE RErr("String"),
              IF x.j = "bool" THEN ROk(PvBool(x.v)) ELSE RErr("Bool"),
              IF JIsNum(x) THEN ROk(PvNumber(x.v)) ELSE RErr("Number"),
              Tagged("Vector3", de_vec3(x)),
              Tagged("CFrame", de_cframe(x)),
              Tagged("Color3", de_color3(x)),
              Tagged("UDim2", de_udim2(x)),
              IF x.j = "string" THEN ROk(PvEnum(x.v)) ELSE RErr("Enum")>>, 1)

\* Every sequence that takes its i-th element from sets[i].
RECURSIVE SeqProduct(_)
SeqProduct(sets) ==
    IF Len(sets) = 0 THEN {<<>>}
    ELSE {<<h>> \o t : h \in Head(sets), t \in SeqProduct(Tail(sets))}

\* serde_json::to_string_pretty(&Instance): the fields in declaration
\* order; properties is a HashMap, written in its iteration order, which
\* is any order of its keys.  The result is the set of texts a run can write.
RECURSIVE to_string_pretty(_)
to_string_pretty(instance) ==
    {JObj(<< <<"id", JStr(instance.id.v5)>>,
             <<"name", JStr(instance.name)>>,
             <<"class_name", JStr(instance.class_name)>>,
             <<"properties",
               JObj([i \in 1..Len(order) |->
                        <<order[i], ser_property_value(instance.properties[order[i]])>>])>>,
             <<"children", JArr(kids)>>,
             <<"full_path", JStr(instance.full_path)>>,
             <<"world_bounds", ser_option(instance.world_bounds, ser_aabb)>>,
             <<"center", ser_option(instance.center, ser_vec3)>> >>) :
        order \in Perms(DOMAIN instance.properties),
        kids \in SeqProduct([i \in 1..Len(instance.children) |->
                                to_string_pretty(instance.children[i])])}

de_aabb(x) ==
    IF /\ JHas(x, "min") /\ de_vec3(JField(x, "min")).ok
       /\ JHas(x, "max") /\ de_vec3(JField(x, "max")).ok
        THEN ROk(Aabb(Get(de_vec3(JField(x, "min")).val), Get(de_vec3(JField(x, "max")).val)))
    ELSE RErr("AabbWrapper")

\* An Option field with #[serde(default)]: absent or null is None.
de_option(x, k, F(_)) ==
    IF ~JHas(x, k) \/ JField(x, k).j = "null" THEN ROk(None)
    ELSE IF F(JField(x, k)).ok THEN ROk(Some(Get(F(JField(x, k)).val)))
    ELSE RErr(k)

JHasStr(x, k) == JHas(x, k) /\ JField(x, k).j = "string"

\* serde_json::from_str::<Instance>: id, name, class_name, properties and
\* children are required, the computed fields default.
RECURSIVE de_instance(_)
de_instance(x) ==
    IF /\ JHasStr(x, "id") /\ JHasStr(x, "name") /\ JHasStr(x, "class_name")
       /\ JHas(x, "properties") /\ JField(x, "properties").j = "object"
       /\ \A i \in 1..Len(JField(x, "properties").v) :
            de_property_value(JField(x, "properties").v[i][2]).ok
       /\ JHas(x, "children") /\ JField(x, "children").j = "array"
       /\ \A i \in 1..Len(JField(x, "children").v) :
            de_instance(JField(x, "children").v[i]).ok
       /\ (JHas(x, "full_path") => JField(x, "full_path").j = "string")
       /\ de_option(x, "world_bounds", de_aabb).ok
       /\ de_option(x, "center", de_vec3).ok
    THEN
        LET props == JField(x, "properties").v
            kids == JField(x, "children").v
        IN  ROk([id |-> Uuid_new_v5(JField(x, "id").v),
                 name |-> JField(x, "name").v,
                 class_name |-> JField(x, "class_name").v,
                 properties |->
                    MapOfPairs([i \in 1..Len(props) |->
                        <<props[i][1], Get(de_property_value(props[i][2]).val)>>]),
                 children |-> [i \in 1..Len(kids) |-> Get(de_instance(kids[i]).val)],
                 full_path |-> IF JHas(x, "full_path") THEN JField(x, "full_path").v ELSE "",
                 world_bounds |-> Get(de_option(x, "world_bounds", de_aabb).val),
                 center |-> Get(de_option(x, "center", de_vec3).val)])
    ELSE RErr("invalid Instance")

(***************************************************************************)
(* Loader specification: the project is edited entry by entry, loaded,     *)
(* and its tree serialised twice (two runs over the unchanged project).    *)
(***************************************************************************)
MaxEntries == 3
MaxDepth == 2

W(s) == Word(s)
TxtPart ==
    <<Stmt("ClassName", W(<<"P", "a", "r", "t">>)),
      Stmt("CFrame", Call("CFrame.new", <<0, Unit, 0>>))>>
TxtRenamed == <<Stmt("Name", Quoted("Renamed"))>>
TxtBroken ==
    <<Stmt("Name", Quoted("Early")), Stmt("Anchored", W(<<"t", "r", "u", "e">>)),
      Stmt("Size", Junk), Stmt("Name", Quoted("Late"))>>
TxtEmpty == <<>>
TxtSized ==
    <<Stmt("Size", Call("Vector3.new", <<2 * Unit, 2 * Unit, 2 * Unit>>)),
      Stmt("Position", Call("Vector3.new", <<4 * Unit, 0, 0>>))>>

DirNames == {<<"Workspace">>, <<"Lighting">>, <<"widgets", "model">>, <<"stuff">>}

FileTemplates ==
    {[name |-> <<"A", "part">>, node |-> FileNode("ClassName = Part CFrame = CFrame.new(0, 1, 0)", TxtPart)],
     [name |-> <<"A", "part">>, node |-> FileNode("Name = \"Renamed\"", TxtRenamed)],
     [name |-> <<"B", "part">>, node |-> FileNode("Name = \"Early\" Anchored = true Size = ? Name = \"Late\"", TxtBroken)],
     [name |-> <<"B", "part">>, node |-> FileNode("Size = Vector3.new(2, 2, 2) Position = Vector3.new(4, 0, 0)", TxtSized)],
     [name |-> <<"notes", "txt">>, node |-> FileNode("", TxtEmpty)],
     [name |-> <<"main", "server", "lua">>, node |-> FileNode("print(1)", TxtEmpty)],
     [name |-> <<"a", "server", "server", "lua">>, node |-> FileNode("print(2)", TxtEmpty)],
     [name |-> <<"data", "json">>, node |-> FileNode("{}", TxtEmpty)],
     [name |-> <<"README">>, node |-> FileNode("readme", TxtEmpty)]}

Dirs(f) == {<<>>} \cup {p \in DOMAIN f : f[p].kind = "dir"}

Mkdir ==
    /\ phase = "edit"
    /\ Cardinality(DOMAIN fs) < MaxEntries
    /\ \E dir \in Dirs(fs), raw \in DirNames :
        /\ Len(dir) < MaxDepth
        /\ Append(dir, raw) \notin DOMAIN fs
        /\ fs' = WithEntry(fs, Append(dir, raw), DirNode)
    /\ UNCHANGED <<phase, tree, json1, json2, serdeVars, pipeVars, diffVars, toolVars>>

WriteFile ==
    /\ phase = "edit"
    /\ Cardinality(DOMAIN fs) < MaxEntries
    /\ \E dir \in Dirs(fs), t \in FileTemplates :
        /\ Append(dir, t.name) \notin DOMAIN fs
        /\ fs' = WithEntry(fs, Append(dir, t.name), t.node)
    /\ UNCHANGED <<phase, tree, json1, json2, serdeVars, pipeVars, diffVars, toolVars>>

\* load_project on the project as it stands.
Load ==
    /\ phase = "edit"
    /\ phase' = "loaded"
    /\ tree' = Some(Get(load_project(Some(fs)).val))
    /\ UNCHANGED <<fs, json1, json2, serdeVars, pipeVars, diffVars, toolVars>>

\* A run writes world.json from the tree it loaded.
SaveWorld ==
    /\ phase = "loaded"
    /\ phase' = "saved1"
    /\ \E text \in to_string_pretty(Get(tree)) : json1' = Some(text)
    /\ UNCHANGED <<fs, tree, json2, serdeVars, pipeVars, diffVars, toolVars>>

\* A second run over the unchanged project loads and writes it again.
SaveWorldAgain ==
    /\ phase = "saved1"
    /\ phase' = "saved2"
    /\ \E text \in to_string_pretty(Get(load_project(Some(fs)).val)) : json2' = Some(text)
    /\ UNCHANGED <<fs, tree, json1, serdeVars, pipeVars, diffVars, toolVars>>

(***************************************************************************)
(* Diff engine (src/core/diff.rs)                                          *)
(***************************************************************************)
\* flatten_instance: depth first, parent before children; a later insert
\* of the same full_path replaces the earlier one.
RECURSIVE flatten_pairs(_)
RECURSIVE flatten_children(_)
flatten_pairs(root) == <<<<root.full_path, root>>>> \o flatten_children(root.children)
flatten_children(kids) ==
    IF Len(kids) = 0 THEN <<>>
    ELSE flatten_pairs(Head(kids)) \o flatten_children(Tail(kids))
\* flatten_instance without the recursion of lines 131-133: the root alone.
flatten_root_only(root) == MapOfPairs(<<<<root.full_path, root>>>>)
flatten_instance(root) == MapOfPairs(flatten_pairs(root))

\* format!("{:?}", v): the variant's name and its payload.
DebugFmt(p) == <<p.tag, p.v>>
NullStr == <<"null">>

\* The property loop without the comparison of line 78: every property of
\* the new side is recorded.
property_changes_unconditional(old_inst, new_inst) ==
    [k \in DOMAIN new_inst.properties |->
        [old |-> IF k \in DOMAIN old_inst.properties
                    THEN DebugFmt(old_inst.properties[k]) ELSE NullStr,
         new |-> DebugFmt(new_inst.properties[k])]]

\* The property loop run over the keys of both sides: a property the new
\* side dropped is recorded as a change to "null".
property_changes_with_removals(old_inst, new_inst) ==
    LET changed == {k \in DOMAIN new_inst.properties \cup DOMAIN old_inst.properties :
                        \/ k \notin DOMAIN old_inst.properties
                        \/ k \notin DOMAIN new_inst.properties
                        \/ ~PvEq(new_inst.properties[k], old_inst.properties[k])}
    IN  [k \in changed |->
            [old |-> IF k \in DOMAIN old_inst.properties
                        THEN DebugFmt(old_inst.properties[k]) ELSE NullStr,
             new |-> IF k \in DOMAIN new_inst.properties
                        THEN DebugFmt(new_inst.properties[k]) ELSE NullStr]]

property_changes(old_inst, new_inst) ==
    LET changed == {k \in DOMAIN new_inst.properties :
                        \/ k \notin DOMAIN old_inst.properties
                        \/ ~PvEq(new_inst.properties[k], old_inst.properties[k])}
    IN  [k \in changed |->
            [old |-> IF k \in DOMAIN old_inst.properties
                        THEN DebugFmt(old_inst.properties[k]) ELSE NullStr,
             new |-> DebugFmt(new_inst.properties[k])]]

\* Largest r with r * r <= n (Vec3::distance takes a square root).
RECURSIVE SqrtBetween(_, _, _)
SqrtBetween(n, lo, hi) ==
    IF lo >= hi THEN lo
    ELSE LET mid == (lo + hi + 1) \div 2
         IN  IF mid * mid <= n THEN SqrtBetween(n, mid, hi)
             ELSE SqrtBetween(n, lo, mid - 1)
ISqrt(n) == SqrtBetween(n, 0, 46340)

Dist2(a, b) ==
    (a.x - b.x) * (a.x - b.x) + (a.y - b.y) * (a.y - b.y) + (a.z - b.z) * (a.z - b.z)

\* 0.001, in ticks
Epsilon == Unit \div 1000

\* The spatial check with `dist >= 0.001` in place of line 107.
spatial_change_inclusive(old_inst, new_inst) ==
    LET old_c == old_inst.center
        new_c == new_inst.center
        dist2 == IF IsSome(old_c) /\ IsSome(new_c) THEN Dist2(Get(old_c), Get(new_c)) ELSE 0
    IN  IF old_c # new_c /\ dist2 >= Epsilon * Epsilon
            THEN Some([old_center |-> old_c, new_center |-> new_c,
                       displacement |-> ISqrt(dist2)])
        ELSE None

spatial_change(old_inst, new_inst) ==
    LET old_c == old_inst.center
        new_c == new_inst.center
        dist2 == IF IsSome(old_c) /\ IsSome(new_c) THEN Dist2(Get(old_c), Get(new_c)) ELSE 0
    IN  IF old_c # new_c /\ dist2 > Epsilon * Epsilon
            THEN Some([old_center |-> old_c, new_center |-> new_c,
                       displacement |-> ISqrt(dist2)])
        ELSE None

instance_diff(path, old_inst, new_inst) ==
    [path |-> path,
     property_changes |-> property_changes(old_inst, new_inst),
     spatial_change |-> spatial_change(old_inst, new_inst)]

\* compare_worlds with the test of line 122 reduced to the added and the
\* removed list: modifications alone leave the status "unchanged".
compare_worlds_status_by_paths(old, new) ==
    LET old_map == flatten_instance(old)
        new_map == flatten_instance(new)
        added == {q \in DOMAIN new_map : q \notin DOMAIN old_map}
        removed == {q \in DOMAIN old_map : q \notin DOMAIN new_map}
        modified == {q \in DOMAIN new_map :
                        /\ q \in DOMAIN old_map
                        /\ LET d == instance_diff(q, old_map[q], new_map[q])
                           IN  DOMAIN d.property_changes # {} \/ IsSome(d.spatial_change)}
    IN  {[schema_version |-> "1.0",
          status |-> IF added # {} \/ removed # {} THEN "changed" ELSE "unchanged",
          changes |-> [added_instances |-> a,
                       removed_instances |-> r,
                       modified_instances |->
                            [i \in 1..Len(m) |-> instance_diff(m[i], old_map[m[i]], new_map[m[i]])]]] :
            a \in Perms(added), r \in Perms(removed), m \in Perms(modified)}

\* compare_worlds: the set of reports a call can return.  Each list is
\* pushed in the iteration order of a HashMap, which is any order.
compare_worlds(old, new) ==
    LET old_map == flatten_instance(old)
        new_map == flatten_instance(new)
        added == {q \in DOMAIN new_map : q \notin DOMAIN old_map}
        removed == {q \in DOMAIN old_map : q \notin DOMAIN new_map}
        modified == {q \in DOMAIN new_map :
                        /\ q \in DOMAIN old_map
                        /\ LET d == instance_diff(q, old_map[q], new_map[q])
                           IN  DOMAIN d.property_changes # {} \/ IsSome(d.spatial_change)}
    IN  {[schema_version |-> "1.0",
          status |-> IF added # {} \/ removed # {} \/ modified # {}
                        THEN "changed" ELSE "unchanged",
          changes |-> [added_instances |-> a,
                       removed_instances |-> r,
                       modified_instances |->
                            [i \in 1..Len(m) |-> instance_diff(m[i], old_map[m[i]], new_map[m[i]])]]] :
            a \in Perms(added), r \in Perms(removed), m \in Perms(modified)}

(***************************************************************************)
(* Analysis adapter (src/core/analysis.rs).  An output line is the         *)
(* sequence of its ':'-separated fields; a field is its text and, when     *)
(* trim().parse::<usize>() accepts it, the number it reads as.             *)
(***************************************************************************)
TextField(t) == [txt |-> t, num |-> None]
NumField(t, n) == [txt |-> t, num |-> Some(n)]

\* line.splitn(4, ':'): at most four parts, the fourth keeps the rest.
splitn4(line) ==
    IF Len(line) <= 4 THEN [i \in 1..Len(line) |-> line[i].txt]
    ELSE <<line[1].txt, line[2].txt, line[3].txt,
           JoinWith([i \in 1..(Len(line) - 3) |-> line[i + 3].txt], ":")>>

MsgUnknownProperty == "Key 'Szie' not found in class 'Part'"
MsgTypeMismatch == "Type mismatch"

\* str::trim, for the blanks of the model's texts.
RECURSIVE trim_start(_)
trim_start(s) ==
    IF Len(s) > 0 /\ SubSeq(s, 1, 1) = " " THEN trim_start(SubSeq(s, 2, Len(s))) ELSE s
RECURSIVE trim_end(_)
trim_end(s) ==
    IF Len(s) > 0 /\ SubSeq(s, Len(s), Len(s)) = " " THEN trim_end(SubSeq(s, 1, Len(s) - 1)) ELSE s
trim(s) == trim_end(trim_start(s))

parse_luau_line(line, filepath) ==
    LET parts == splitn4(line)
    IN  IF Len(parts) >= 3 /\ IsSome(line[2].num) THEN
            LET message_start_idx == IF IsSome(line[3].num) THEN 3 ELSE 2
                raw_message == trim(JoinWith(SubSeq(parts, message_start_idx + 1, Len(parts)), ":"))
            IN  IF Len(parts) > message_start_idx THEN
                    Some([file |-> filepath,
                          line |-> Get(line[2].num),
                          message |-> raw_message,
                          severity |-> "error",
                          code |-> IF raw_message = MsgUnknownProperty THEN Some("UnknownProperty")
                                   ELSE IF raw_message = MsgTypeMismatch THEN Some("TypeMismatch")
                                   ELSE None,
                          hint |-> None])
                ELSE None
        ELSE None

\* The files WalkDir finds under game/ whose extension is lua.
lua_files(g) ==
    IF IsSome(g) THEN {q \in DOMAIN Get(g) : extension(Last(q)) = Some("lua")} ELSE {}

RECURSIVE diagnostics_of(_, _)
diagnostics_of(lines, filepath) ==
    IF Len(lines) = 0 THEN <<>>
    ELSE parse_luau_line(Head(lines), filepath) \o diagnostics_of(Tail(lines), filepath)

\* The loop over lua_files, in walk order: the first file whose process
\* cannot be started ends run_analysis with that error.
RECURSIVE analyse_files(_, _)
analyse_files(files, output) ==
    IF Len(files) = 0 THEN ROk(<<>>)
    ELSE IF ~output[Head(files)].spawned THEN RErr("cannot run the analyzer")
    ELSE LET rest == analyse_files(Tail(files), output)
         IN  IF rest.ok
                THEN ROk(diagnostics_of(output[Head(files)].lines, path_str(Head(files)))
                            \o Get(rest.val))
             ELSE rest

\* env: what the machine answers.  in_path: `luau-analyze --version` can be
\* started; local, local_exe: ./luau-analyze, ./luau-analyze.exe exist;
\* order: the walk order of the lua files; output: per file, whether the
\* analyzer process started and the lines it printed.
run_analysis(g, skip_analysis, env) ==
    IF skip_analysis THEN ROk([errors |-> <<>>, schema_version |-> "1.0"])
    ELSE IF ~(env.in_path \/ env.local \/ env.local_exe)
        THEN RErr("luau-analyze not found in PATH or current directory")
    ELSE LET r == analyse_files(env.order, env.output)
         IN  IF r.ok THEN ROk([errors |-> Get(r.val), schema_version |-> "1.0"])
             ELSE r

(***************************************************************************)
(* Renderer (src/core/renderer.rs), as far as the pipeline depends on it:  *)
(* the rectangles of the GUI overlay and whether render_scene returns.     *)
(***************************************************************************)
WIDTH == 800
HEIGHT == 600

\* `v as u32` of an f32 held in ticks: truncation, negatives saturate to 0.
AsU32(t) == IF t < 0 THEN 0 ELSE t \div Unit

RECURSIVE draw_gui_recursive(_, _, _, _, _)
RECURSIVE draw_gui_children(_, _, _, _, _)

\* draw_gui_recursive with a Position resolved against the viewport's
\* origin: parent_x and parent_y are not added.
draw_gui_from_origin(instance, parent_x, parent_y, parent_w, parent_h) ==
    LET isFrame == instance.class_name = "Frame"
        hasPos == isFrame /\ HasProp(instance, "Position", "UDim2")
        hasSize == isFrame /\ HasProp(instance, "Size", "UDim2")
        pos == instance.properties["Position"].v
        size == instance.properties["Size"].v
        my_x == IF hasPos THEN (pos.xs * parent_w) \div Unit + pos.xo * Unit
                ELSE parent_x
        my_y == IF hasPos THEN (pos.ys * parent_h) \div Unit + pos.yo * Unit
                ELSE parent_y
        my_w == IF hasSize THEN (size.xs * parent_w) \div Unit + size.xo * Unit ELSE parent_w
        my_h == IF hasSize THEN (size.ys * parent_h) \div Unit + size.yo * Unit ELSE parent_h
    IN  (IF isFrame THEN <<[x |-> my_x, y |-> my_y, w |-> my_w, h |-> my_h]>> ELSE <<>>)
            \o draw_gui_children(instance.children, my_x, my_y, my_w, my_h)

\* The rectangles filled, in drawing order, as [x, y, w, h] in ticks.
draw_gui_recursive(instance, parent_x, parent_y, parent_w, parent_h) ==
    LET isFrame == instance.class_name = "Frame"
        hasPos == isFrame /\ HasProp(instance, "Position", "UDim2")
        hasSize == isFrame /\ HasProp(instance, "Size", "UDim2")
        pos == instance.properties["Position"].v
        size == instance.properties["Size"].v
        my_x == IF hasPos THEN parent_x + (pos.xs * parent_w) \div Unit + pos.xo * Unit
                ELSE parent_x
        my_y == IF hasPos THEN parent_y + (pos.ys * parent_h) \div Unit + pos.yo * Unit
                ELSE parent_y
        my_w == IF hasSize THEN (size.xs * parent_w) \div Unit + size.xo * Unit ELSE parent_w
        my_h == IF hasSize THEN (size.ys * parent_h) \div Unit + size.yo * Unit ELSE parent_h
    IN  (IF isFrame THEN <<[x |-> my_x, y |-> my_y, w |-> my_w, h |-> my_h]>> ELSE <<>>)
            \o draw_gui_children(instance.children, my_x, my_y, my_w, my_h)

draw_gui_children(kids, x, y, w, h) ==
    IF Len(kids) = 0 THEN <<>>
    ELSE draw_gui_recursive(Head(kids), x, y, w, h) \o draw_gui_children(Tail(kids), x, y, w, h)

RECURSIVE overlay_of_screen_guis(_)
overlay_of_screen_guis(kids) ==
    IF Len(kids) = 0 THEN <<>>
    ELSE (IF Head(kids).class_name = "ScreenGui"
            THEN draw_gui_recursive(Head(kids), 0, 0, WIDTH * Unit, HEIGHT * Unit)
          ELSE <<>>) \o overlay_of_screen_guis(Tail(kids))

RECURSIVE overlay_of_starter_guis(_)
overlay_of_starter_guis(kids) ==
    IF Len(kids) = 0 THEN <<>>
    ELSE (IF Head(kids).class_name = "StarterGui"
            THEN overlay_of_screen_guis(Head(kids).children)
          ELSE <<>>) \o overlay_of_starter_guis(Tail(kids))

draw_ui_overlay(root) == overlay_of_starter_guis(root.children)

\* The pixel rectangles draw_filled_rect_mut receives, in order:
\* Rect::at(my_x as i32, my_y as i32).of_size(my_w as u32, my_h as u32), up
\* to the first rectangle whose of_size panics.
RECURSIVE filled_prefix(_)
filled_prefix(rs) ==
    IF Len(rs) = 0 THEN <<>>
    ELSE IF AsU32(Head(rs).w) = 0 \/ AsU32(Head(rs).h) = 0 THEN <<>>
    ELSE <<[x |-> AsI32(Head(rs).x), y |-> AsI32(Head(rs).y),
            w |-> AsU32(Head(rs).w), h |-> AsU32(Head(rs).h)]>> \o filled_prefix(Tail(rs))
filled_rects(root) == filled_prefix(draw_ui_overlay(root))

\* Rect::at(x, y).of_size(w as u32, h as u32) asserts a positive width and
\* height; otherwise render_scene saves the image and returns Ok.
render_scene(root) ==
    IF \E i \in 1..Len(draw_ui_overlay(root)) :
            \/ AsU32(draw_ui_overlay(root)[i].w) = 0
            \/ AsU32(draw_ui_overlay(root)[i].h) = 0
        THEN "panic"
    ELSE "ok"

(***************************************************************************)
(* Pipeline driver (src/commands/run.rs)                                   *)
(***************************************************************************)
\* RunOptions, without target (unused) and the debug_* flags, which only
\* select overlays inside render_scene.
RunOptionsSet == [render : BOOLEAN, relaxed : BOOLEAN, diff : BOOLEAN]

\* The whole RunOptions bag of run.rs:8-16, as the command line fills it.
Targets == {None, Some("game/Workspace/A")}
RunOptionsBags ==
    [render : BOOLEAN, relaxed : BOOLEAN, target : Targets, diff : BOOLEAN,
     debug_bounds : BOOLEAN, debug_origin : BOOLEAN, debug_axes : BOOLEAN]
DefaultOptions ==
    [render |-> FALSE, relaxed |-> FALSE, target |-> None, diff |-> FALSE,
     debug_bounds |-> FALSE, debug_origin |-> FALSE, debug_axes |-> FALSE]
PresetNames == {"agent", "ci", "debug", "fast", "CI", ""}

\* apply_preset with a "ci" arm that switches the render off.
apply_preset_ci_without_render(o, name) ==
    CASE name = "agent" ->
            ROk([o EXCEPT !.relaxed = FALSE, !.render = TRUE, !.diff = TRUE,
                          !.debug_bounds = TRUE, !.debug_origin = TRUE, !.debug_axes = TRUE])
      [] name = "ci" ->
            ROk([o EXCEPT !.relaxed = FALSE, !.render = FALSE, !.diff = TRUE])
      [] name = "debug" ->
            ROk([o EXCEPT !.relaxed = TRUE, !.render = TRUE,
                          !.debug_bounds = TRUE, !.debug_origin = TRUE, !.debug_axes = TRUE])
      [] OTHER -> RErr("Unknown preset: " \o name)

\* apply_preset: Ok with the bag it leaves in *opts, or Err (the bag is
\* then untouched).
apply_preset(o, name) ==
    CASE name = "agent" ->
            ROk([o EXCEPT !.relaxed = FALSE, !.render = TRUE, !.diff = TRUE,
                          !.debug_bounds = TRUE, !.debug_origin = TRUE, !.debug_axes = TRUE])
      [] name = "ci" ->
            ROk([o EXCEPT !.relaxed = FALSE,
                          !.render = IF ~o.render THEN FALSE ELSE o.render,
                          !.diff = TRUE])
      [] name = "debug" ->
            ROk([o EXCEPT !.relaxed = TRUE, !.render = TRUE,
                          !.debug_bounds = TRUE, !.debug_origin = TRUE, !.debug_axes = TRUE])
      [] OTHER -> RErr("Unknown preset: " \o name)

NoFile == None
EmptyResults == [world |-> NoFile, diff |-> NoFile, diagnostics |-> NoFile, render |-> NoFile]

\* read_old_world without the test of options.diff.
read_old_world_unasked(res, options) ==
    IF IsSome(res.world) /\ de_instance(Get(res.world)).ok
        THEN Some(Get(de_instance(Get(res.world)).val))
    ELSE None

\* Lines 57-66: the previous tree, when diff is set and results/world.json
\* can be read and parses as an Instance.
read_old_world(res, options) ==
    IF options.diff THEN
        IF IsSome(res.world) THEN
            IF de_instance(Get(res.world)).ok
                THEN Some(Get(de_instance(Get(res.world)).val))
            ELSE None
        ELSE None
    ELSE None

\* strict_exit without the exit of line 99: a failed analysis passes.
strict_exit_on_report_only(options, analysis) ==
    analysis.ok /\ ~options.relaxed /\ Len(Get(analysis.val).errors) > 0

\* Lines 93 and 99: in strict mode an analysis error, or a report that
\* holds errors, ends the process with std::process::exit(1).
strict_exit(options, analysis) ==
    IF analysis.ok THEN ~options.relaxed /\ Len(Get(analysis.val).errors) > 0
    ELSE ~options.relaxed

\* Lines 88-106: what the match writes to results/diagnostics.json.
StubReport == [errors |-> <<>>, schema_version |-> ""]
diagnostics_file(res, options, analysis) ==
    IF analysis.ok THEN Some(Get(analysis.val))
    ELSE IF options.relaxed THEN Some(StubReport)
    ELSE res.diagnostics

Png == "png"

\* run_loaded with world.json written after the analysis gate: a run
\* that the gate stops leaves the file as it found it.
run_loaded_world_after_gate(res, options, old_world, analysis, texts, reports, scene) ==
    LET stop == strict_exit(options, analysis)
        render == ~stop /\ options.render
        painted == render /\ scene = "ok"
    IN  {[results |-> [world |-> IF stop THEN res.world ELSE Some(w),
                       diff |-> d,
                       diagnostics |-> diagnostics_file(res, options, analysis),
                       render |-> IF painted THEN Some(Png) ELSE res.render],
          result |-> IF stop THEN "exit1"
                     ELSE IF render /\ ~painted THEN "panic"
                     ELSE "ok",
          written |-> (IF stop THEN {} ELSE {"world.json"})
                        \cup (IF IsSome(old_world) THEN {"diff.json"} ELSE {})
                        \cup (IF analysis.ok \/ options.relaxed
                                THEN {"diagnostics.json"} ELSE {})
                        \cup (IF painted THEN {"render.png"} ELSE {}),
          old_world |-> IsSome(old_world),
          analysis |-> IF ~analysis.ok THEN "failed"
                       ELSE IF Len(Get(analysis.val).errors) > 0 THEN "errors"
                       ELSE "clean",
          rendered |-> render] :
            w \in texts, d \in reports}

\* Lines 71-124 of run_project, after a successful load: the outcomes,
\* given the analysis result, the texts world.json may hold, the reports
\* diff.json may hold and what render_scene does with the tree.
run_loaded(res, options, old_world, analysis, texts, reports, scene) ==
    LET stop == strict_exit(options, analysis)
        render == ~stop /\ options.render
        painted == render /\ scene = "ok"
    IN  {[results |-> [world |-> Some(w),
                       diff |-> d,
                       diagnostics |-> diagnostics_file(res, options, analysis),
                       render |-> IF painted THEN Some(Png) ELSE res.render],
          result |-> IF stop THEN "exit1"
                     ELSE IF render /\ ~painted THEN "panic"
                     ELSE "ok",
          written |-> {"world.json"}
                        \cup (IF IsSome(old_world) THEN {"diff.json"} ELSE {})
                        \cup (IF analysis.ok \/ options.relaxed
                                THEN {"diagnostics.json"} ELSE {})
                        \cup (IF painted THEN {"render.png"} ELSE {}),
          old_world |-> IsSome(old_world),
          analysis |-> IF ~analysis.ok THEN "failed"
                       ELSE IF Len(Get(analysis.val).errors) > 0 THEN "errors"
                       ELSE "clean",
          rendered |-> render] :
            w \in texts, d \in reports}

\* run_project: the outcomes a run can have from the project g and the
\* results directory res.  result is "err" (an Err is returned), "exit1"
\* (std::process::exit(1)), "panic" or "ok".
run_project(g, res, options, env) ==
    UNION {
        IF ~loaded.ok THEN
            {[results |-> res, result |-> "err", written |-> {},
              old_world |-> IsSome(old_world), analysis |-> "none", rendered |-> FALSE]}
        ELSE
            UNION {run_loaded(res, options, old_world, analysis,
                              to_string_pretty(datamodel),
                              IF IsSome(old_world)
                                  THEN {Some(d) : d \in compare_worlds(Get(old_world), datamodel)}
                              ELSE {res.diff},
                              scene) :
                     datamodel \in {Get(loaded.val)},
                     analysis \in {run_analysis(g, options.relaxed, env)},
                     scene \in {render_scene(Get(loaded.val))}} :
        old_world \in {read_old_world(res, options)},
        loaded \in {load_project(g)}}

(***************************************************************************)
(* Pipeline specification: one `ludock run` (a process) over the project   *)
(* the user put in place and the results directory earlier runs left,      *)
(* whose world.json the user may have deleted or overwritten.              *)
(***************************************************************************)
RECURSIVE WithEntries(_, _)
WithEntries(f, entries) ==
    IF Len(entries) = 0 THEN f
    ELSE WithEntries(WithEntry(f, Head(entries)[1], Head(entries)[2]), Tail(entries))

PartAt(x, y, z) == <<Stmt("CFrame", Call("CFrame.new", <<x, y, z>>))>>
TxtZeroFrame == <<Stmt("Size", Call("UDim2.new", <<0, 0, 0, 0>>))>>
TxtBall == <<Stmt("Shape", EnumLit("PartType", "Ball"))>>

\* The projects a run may find on disk.
Projects ==
    << \* Workspace/A.part at the origin
       WithEntries(EmptyGame,
          << <<<< <<"Workspace">> >>, DirNode>>,
             <<<< <<"Workspace">>, <<"A", "part">> >>, FileNode("CFrame = CFrame.new(0, 0, 0)", PartAt(0, 0, 0))>> >>),
       \* A moved to (10, 0, 0), B added at (5, 0, 0)
       WithEntries(EmptyGame,
          << <<<< <<"Workspace">> >>, DirNode>>,
             <<<< <<"Workspace">>, <<"A", "part">> >>,
               FileNode("CFrame = CFrame.new(10, 0, 0)", PartAt(10 * Unit, 0, 0))>>,
             <<<< <<"Workspace">>, <<"B", "part">> >>,
               FileNode("CFrame = CFrame.new(5, 0, 0)", PartAt(5 * Unit, 0, 0))>> >>),
       \* one script for the analyzer
       WithEntries(EmptyGame,
          << <<<< <<"ServerScriptService">> >>, DirNode>>,
             <<<< <<"ServerScriptService">>, <<"main", "server", "lua">> >>,
               FileNode("print(1)", TxtEmpty)>> >>),
       \* a ScreenGui directory holding a Frame of size zero
       WithEntries(EmptyGame,
          << <<<< <<"StarterGui">> >>, DirNode>>,
             <<<< <<"StarterGui">>, <<"Main", "gui", "d">> >>, DirNode>>,
             <<<< <<"StarterGui">>, <<"Main", "gui", "d">>, <<"Panel", "frame">> >>,
               FileNode("Size = UDim2.new(0, 0, 0, 0)", TxtZeroFrame)>> >>),
       \* Workspace/A.part shaped as a ball
       WithEntries(EmptyGame,
          << <<<< <<"Workspace">> >>, DirNode>>,
             <<<< <<"Workspace">>, <<"A", "part">> >>,
               FileNode("Shape = Enum.PartType.Ball", TxtBall)>> >>) >>

\* game = 0: the root has no game/ directory.
GameDir(g) == IF g = 0 THEN None ELSE Some(Projects[g])

ErrorLine == <<TextField("main.server.lua"), NumField("5", 5), NumField("16", 16),
               TextField(" TypeError"), TextField(" oops")>>
NoiseLine == <<TextField("Checked 1 file")>>
AnalyzerOutcomes ==
    {[spawned |-> FALSE, lines |-> <<>>],
     [spawned |-> TRUE, lines |-> <<>>],
     [spawned |-> TRUE, lines |-> <<NoiseLine>>],
     [spawned |-> TRUE, lines |-> <<NoiseLine, ErrorLine>>]}

\* Where the analyzer is found: on PATH, as ./luau-analyze, as
\* ./luau-analyze.exe, or nowhere.
Detections ==
    {[in_path |-> TRUE, local |-> FALSE, local_exe |-> FALSE],
     [in_path |-> FALSE, local |-> TRUE, local_exe |-> TRUE],
     [in_path |-> FALSE, local |-> FALSE, local_exe |-> TRUE],
     [in_path |-> FALSE, local |-> FALSE, local_exe |-> FALSE]}

AnalyzerEnvs(g) ==
    {[in_path |-> d.in_path, local |-> d.local, local_exe |-> d.local_exe,
      order |-> ord, output |-> out] :
        d \in Detections, ord \in Perms(lua_files(g)),
        out \in [lua_files(g) -> AnalyzerOutcomes]}

NoRun ==
    [n |-> 0, options |-> [render |-> FALSE, relaxed |-> FALSE, diff |-> FALSE],
     game |-> 0, before |-> EmptyResults, after |-> EmptyResults,
     result |-> "none", written |-> {},
     old_world |-> FALSE, analysis |-> "none", rendered |-> FALSE]

\* The user puts another project (or none) in place.
SetProject ==
    /\ run.n = 0
    /\ \E g \in 0..Len(Projects) : g # game /\ game' = g
    /\ UNCHANGED <<results, run, loaderVars, serdeVars, diffVars, toolVars>>

\* The user deletes results/world.json or leaves text in it that is no tree.
NotATree == JStr("not a tree")
TamperWorld ==
    /\ run.n = 0
    /\ \E content \in {NoFile, Some(NotATree)} :
        /\ results.world # content
        /\ results' = [results EXCEPT !.world = content]
    /\ UNCHANGED <<game, run, loaderVars, serdeVars, diffVars, toolVars>>

\* One `ludock run` in the project root.
RunProject ==
    /\ run.n = 0
    /\ \E options \in RunOptionsSet, env \in AnalyzerEnvs(GameDir(game)) :
        \E o \in run_project(GameDir(game), results, options, env) :
            /\ results' = o.results
            /\ run' = [n |-> 1, options |-> options, game |-> game,
                       before |-> results, after |-> o.results,
                       result |-> o.result, written |-> o.written,
                       old_world |-> o.old_world, analysis |-> o.analysis,
                       rendered |-> o.rendered]
    /\ UNCHANGED <<game, loaderVars, serdeVars, diffVars, toolVars>>

(***************************************************************************)
(* Serde specification: a DSL literal is parsed, the value written as      *)
(* canonical JSON and read back.                                           *)
(***************************************************************************)
MaxHalf == 1
Coords == {k * (Unit \div 2) : k \in (-MaxHalf)..MaxHalf}

SerdeLiterals ==
    {W(<<"P", "a", "r", "t">>), W(<<"t", "r", "u", "e">>), W(<<"f", "a", "l", "s", "e">>),
     W(<<"t", "r", "u", "e", "i", "s", "h">>), W(<<"f", "a", "l", "s", "e", "y">>),
     W(<<"_", "x", "1">>),
     Quoted(""), Quoted("Enum.PartType.Ball"), Quoted("true"),
     EnumLit("PartType", "Ball"), EnumLit("Material", "Neon")}
    \cup {Num(n) : n \in Coords}
    \cup {Call(fn, <<a, b, c>>) :
            fn \in {"Vector3.new", "CFrame.new", "Color3.fromRGB", "Color3.new"},
            a \in Coords, b \in Coords, c \in Coords}
    \cup {Call("UDim2.new", <<a, b, c, d>>) :
            a \in Coords, b \in Coords, c \in Coords, d \in Coords}

ParseLiteral ==
    /\ pv = None
    /\ \E l \in SerdeLiterals :
        /\ parse_value(l).ok
        /\ pv' = Some(Get(parse_value(l).value))
        /\ literal' = Some(l)
    /\ UNCHANGED <<pvJson, pvBack, loaderVars, pipeVars, diffVars, toolVars>>

Serialize ==
    /\ IsSome(pv) /\ pvJson = None
    /\ pvJson' = Some(ser_property_value(Get(pv)))
    /\ UNCHANGED <<pv, pvBack, literal, loaderVars, pipeVars, diffVars, toolVars>>

Deserialize ==
    /\ IsSome(pvJson) /\ pvBack = None
    /\ pvBack' = Some(de_property_value(Get(pvJson)))
    /\ UNCHANGED <<pv, pvJson, literal, loaderVars, pipeVars, diffVars, toolVars>>

(***************************************************************************)
(* Specifications                                                          *)
(***************************************************************************)
LoadInit == fs = EmptyGame /\ phase = "edit" /\ tree = None /\ json1 = None /\ json2 = None
SerdeInit == pv = None /\ pvJson = None /\ pvBack = None /\ literal = None
DiffIdle == oldTree = None /\ newTree = None /\ report = None
PipeIdle == game = 0 /\ results = EmptyResults /\ run = NoRun
PresetIdle == opts = DefaultOptions /\ preset = None
RasterIdle == ctx = None /\ draws = <<>>
GuiIdle == gui = None /\ rects = None
LintIdle == outLine = None /\ diagnostic = None
ToolsIdle == PresetIdle /\ RasterIdle /\ GuiIdle /\ LintIdle

\* The results directory a run may find: empty, or as an earlier
\* `ludock run --relaxed` over one of the projects left it.
PreviousResults ==
    {EmptyResults} \cup
    UNION {{o.results :
              o \in run_project(GameDir(g), EmptyResults,
                                [render |-> FALSE, relaxed |-> TRUE, diff |-> FALSE],
                                CHOOSE env \in AnalyzerEnvs(GameDir(g)) : TRUE)} :
           g \in 1..Len(Projects)}
PipeInit == game = 0 /\ results \in PreviousResults /\ run = NoRun

\* The pipeline driver.
Init == LoadInit /\ SerdeInit /\ DiffIdle /\ ToolsIdle /\ PipeInit
Next == SetProject \/ TamperWorld \/ RunProject
Spec == Init /\ [][Next]_vars

\* The loader and the round trip start from an empty project.
InitEmpty == LoadInit /\ SerdeInit /\ DiffIdle /\ ToolsIdle /\ PipeIdle

\* The loader.
NextLoad == Mkdir \/ WriteFile \/ Load \/ SaveWorld \/ SaveWorldAgain
SpecLoad == InitEmpty /\ [][NextLoad]_vars

\* The property round trip.
NextSerde == ParseLiteral \/ Serialize \/ Deserialize
SpecSerde == InitEmpty /\ [][NextSerde]_vars

(***************************************************************************)
(* Session specification: two consecutive `ludock run` processes in one    *)
(* project root that starts without results, or with the results of a      *)
(* completed run over the second project; the user may put another         *)
(* project in place before each run.  Both runs are made without --render  *)
(* and with the analyzer on PATH, the second one with --diff.              *)
(***************************************************************************)
EarlierResults ==
    {EmptyResults,
     CHOOSE r \in {o.results :
                    o \in run_project(GameDir(2), EmptyResults,
                                      [render |-> FALSE, relaxed |-> TRUE, diff |-> FALSE],
                                      CHOOSE env \in AnalyzerEnvs(GameDir(2)) : TRUE)} :
        TRUE}
InitRuns ==
    /\ LoadInit /\ SerdeInit /\ DiffIdle /\ ToolsIdle
    /\ game = 0 /\ results \in EarlierResults /\ run = NoRun

FirstRunOptions == {o \in RunOptionsSet : ~o.render}
SecondRunOptions == {o \in FirstRunOptions : o.diff}
SessionEnvs(g) == {env \in AnalyzerEnvs(g) : env.in_path}

\* The first `ludock run` of the session.
RunFirst ==
    /\ run.n = 0
    /\ \E options \in FirstRunOptions, env \in SessionEnvs(GameDir(game)) :
        \E o \in run_project(GameDir(game), results, options, env) :
            /\ results' = o.results
            /\ run' = [n |-> 1, options |-> options, game |-> game,
                       before |-> results, after |-> o.results,
                       result |-> o.result, written |-> o.written,
                       old_world |-> o.old_world, analysis |-> o.analysis,
                       rendered |-> o.rendered]
    /\ UNCHANGED <<game, loaderVars, serdeVars, diffVars, toolVars>>

ChangeProject ==
    /\ run.n = 1
    /\ \E g \in 0..Len(Projects) : g # game /\ game' = g
    /\ UNCHANGED <<results, run, loaderVars, serdeVars, diffVars, toolVars>>

\* The second `ludock run`; prior keeps what the first one did.
RunAgain ==
    /\ run.n = 1
    /\ \E options \in SecondRunOptions, env \in SessionEnvs(GameDir(game)) :
        \E o \in run_project(GameDir(game), results, options, env) :
            /\ results' = o.results
            /\ run' = [n |-> 2, options |-> options, game |-> game,
                       before |-> results, after |-> o.results,
                       result |-> o.result, written |-> o.written,
                       old_world |-> o.old_world, analysis |-> o.analysis,
                       rendered |-> o.rendered, prior |-> run]
    /\ UNCHANGED <<game, loaderVars, serdeVars, diffVars, toolVars>>

NextRuns == SetProject \/ TamperWorld \/ RunFirst \/ ChangeProject \/ RunAgain
SpecRuns == InitRuns /\ [][NextRuns]_vars

(***************************************************************************)
(* Preset specification: apply_preset applied once to a bag of options.    *)
(***************************************************************************)
InitPreset ==
    /\ LoadInit /\ SerdeInit /\ DiffIdle /\ PipeIdle /\ RasterIdle /\ GuiIdle /\ LintIdle
    /\ opts \in RunOptionsBags
    /\ preset = None

\* commands/mod.rs:92: run::apply_preset(&mut opts, p)?
ApplyPreset ==
    /\ preset = None
    /\ \E name \in PresetNames :
        \E r \in {apply_preset(opts, name)} :
            /\ opts' = IF r.ok THEN Get(r.val) ELSE opts
            /\ preset' = Some([name |-> name, before |-> opts, ok |-> r.ok])
    /\ UNCHANGED <<loaderVars, serdeVars, diffVars, pipeVars, rasterVars, guiVars, lintVars>>

NextPreset == ApplyPreset
SpecPreset == InitPreset /\ [][NextPreset]_vars

(***************************************************************************)
(* Raster specification: a RenderContext (renderer.rs:12-48) under clear   *)
(* and draw_pixel.  A depth is a whole number, +infinity is <<>>; the      *)
(* image and the Z-buffer are indexed by y * width + x, from 0.            *)
(***************************************************************************)
RasterWidth == 2
RasterHeight == 1
MaxDraws == 2
Infinity == None
Black == "black"
Sky == "sky"
Colours == {"red", "green"}
Depths == {1, 2}

RenderContext_new(width, height) ==
    [buffer |-> [i \in 0..(width * height - 1) |-> Black],
     z_buffer |-> [i \in 0..(width * height - 1) |-> Infinity],
     width |-> width,
     height |-> height]

clear(c, color) ==
    [c EXCEPT !.buffer = [i \in DOMAIN c.buffer |-> color],
              !.z_buffer = [i \in DOMAIN c.z_buffer |-> Infinity]]

\* z < stored, for a stored depth that may be +infinity.
Nearer(z, stored) == stored = Infinity \/ z < Get(stored)
NearerOrEqual(z, stored) == stored = Infinity \/ z <= Get(stored)

\* draw_pixel with `z <= self.z_buffer[idx]`: a later draw wins a tie.
draw_pixel_last_wins(c, x, y, z, color) ==
    IF x >= c.width \/ y >= c.height THEN c
    ELSE LET idx == y * c.width + x
         IN  IF NearerOrEqual(z, c.z_buffer[idx])
                THEN [c EXCEPT !.z_buffer[idx] = Some(z), !.buffer[idx] = color]
             ELSE c

draw_pixel(c, x, y, z, color) ==
    IF x >= c.width \/ y >= c.height THEN c
    ELSE LET idx == y * c.width + x
         IN  IF Nearer(z, c.z_buffer[idx])
                THEN [c EXCEPT !.z_buffer[idx] = Some(z), !.buffer[idx] = color]
             ELSE c

InitRaster ==
    /\ LoadInit /\ SerdeInit /\ DiffIdle /\ PipeIdle /\ PresetIdle /\ GuiIdle /\ LintIdle
    /\ ctx = Some(RenderContext_new(RasterWidth, RasterHeight))
    /\ draws = <<>>

\* renderer.rs:83: ctx.clear(..) starts a frame.
Clear ==
    /\ draws = <<>>
    /\ ctx' = Some(clear(Get(ctx), Sky))
    /\ draws' = <<[op |-> "clear", x |-> 0, y |-> 0, z |-> 0, color |-> Sky]>>
    /\ UNCHANGED <<loaderVars, serdeVars, diffVars, pipeVars, presetVars, guiVars, lintVars>>

\* renderer.rs:497: one ctx.draw_pixel(x, y, z_depth, color); x and y may
\* lie one past the last column and row.
DrawPixel ==
    /\ draws # <<>>
    /\ Len(draws) <= MaxDraws
    /\ \E x \in 0..RasterWidth, y \in 0..RasterHeight, z \in Depths, color \in Colours :
        /\ ctx' = Some(draw_pixel(Get(ctx), x, y, z, color))
        /\ draws' = Append(draws, [op |-> "draw_pixel", x |-> x, y |-> y, z |-> z, color |-> color])
    /\ UNCHANGED <<loaderVars, serdeVars, diffVars, pipeVars, presetVars, guiVars, lintVars>>

NextRaster == Clear \/ DrawPixel
SpecRaster == InitRaster /\ [][NextRaster]_vars

(***************************************************************************)
(* Overlay specification: draw_ui_overlay applied to a tree whose          *)
(* StarterGui holds a ScreenGui with an outer Frame, and inside it, maybe  *)
(* below a TextLabel, an inner Frame.                                      *)
(***************************************************************************)
GuiNode(name, class_name, props, kids) ==
    [Instance_new(name, class_name, name) EXCEPT !.properties = props, !.children = kids]
\* Position and Size as UDim2.new(xs, xo, ys, yo); a scale of 0.5 is Unit / 2.
Positions ==
    {PvUDim2(0, 0, 0, 0), PvUDim2(Unit \div 4, 10, Unit \div 4, 20)}
Sizes ==
    {PvUDim2(Unit \div 2, 0, Unit \div 2, 0), PvUDim2(0, 100, 0, 50), PvUDim2(0, 0, 0, 0)}
FrameProps(position, size) ==
    [k \in {"Position", "Size"} |-> IF k = "Position" THEN position ELSE size]
NoProps == <<>>
GuiTrees ==
    {GuiNode("game", "DataModel", NoProps,
        << GuiNode("Workspace", "Workspace", NoProps,
              << GuiNode("Stray", "Frame", FrameProps(p1, s1), <<>>) >>),
           GuiNode("StarterGui", "StarterGui", NoProps,
              << GuiNode("Main", "ScreenGui", NoProps,
                    << GuiNode("Outer", "Frame", FrameProps(p1, s1),
                          << IF wrapped
                                THEN GuiNode("Label", "TextLabel", FrameProps(p2, s2),
                                        << GuiNode("Inner", "Frame", FrameProps(p2, s2), <<>>) >>)
                             ELSE GuiNode("Inner", "Frame", FrameProps(p2, s2), <<>>) >>) >>),
                 GuiNode("Loose", "Frame", FrameProps(p2, s2), <<>>) >>) >>) :
        p1 \in Positions, s1 \in Sizes, p2 \in Positions, s2 \in Sizes, wrapped \in BOOLEAN}

InitGui ==
    /\ LoadInit /\ SerdeInit /\ DiffIdle /\ PipeIdle /\ PresetIdle /\ RasterIdle /\ LintIdle
    /\ gui \in {Some(t) : t \in GuiTrees}
    /\ rects = None

\* renderer.rs:163: draw_ui_overlay(&mut ctx, root).
DrawOverlay ==
    /\ rects = None
    /\ rects' = Some([computed |-> draw_ui_overlay(Get(gui)), filled |-> filled_rects(Get(gui))])
    /\ UNCHANGED <<gui, loaderVars, serdeVars, diffVars, pipeVars, presetVars, rasterVars, lintVars>>

NextGui == DrawOverlay
SpecGui == InitGui /\ [][NextGui]_vars

(***************************************************************************)
(* Analysis-line specification: parse_luau_line applied to one line of the *)
(* analyzer's output for game/ServerScriptService/main.server.lua.         *)
(***************************************************************************)
AnalysedFile == path_str(<< <<"ServerScriptService">>, <<"main", "server", "lua">> >>)
Headers == {TextField("main.server.lua"), TextField("C"), NumField("12", 12)}
Seconds == {NumField("5", 5), NumField(" 7 ", 7), NumField("0", 0), NumField("00", 0),
            TextField("x"), TextField("")}
Thirds == {NumField("16", 16), TextField(" TypeError"), TextField("")}
Tails == {<<>>, <<TextField(" oops")>>, <<TextField(" Type 'a'"), TextField(" b ")>>}
AnalyzerLines ==
    {<<h>> : h \in Headers}
        \cup {<<h, s>> : h \in Headers, s \in Seconds}
        \cup {<<h, s, t>> \o tail : h \in Headers, s \in Seconds, t \in Thirds, tail \in Tails}

InitLint ==
    /\ LoadInit /\ SerdeInit /\ DiffIdle /\ PipeIdle /\ PresetIdle /\ RasterIdle /\ GuiIdle
    /\ outLine \in {Some(l) : l \in AnalyzerLines}
    /\ diagnostic = None

\* analysis.rs:84-87: parse_luau_line(line, file.to_str()..) for a line of
\* stdout or stderr.
ParseLine ==
    /\ diagnostic = None
    /\ diagnostic' = Some(parse_luau_line(Get(outLine), AnalysedFile))
    /\ UNCHANGED <<outLine, loaderVars, serdeVars, diffVars, pipeVars, presetVars, rasterVars, guiVars>>

NextLint == ParseLine
SpecLint == InitLint /\ [][NextLint]_vars

(***************************************************************************)
(* Diff specification: compare_worlds applied to a pair of trees, each     *)
(* the tree load_project builds from one of the projects below.  A         *)
(* coordinate of 0.001 is Epsilon ticks.                                   *)
(***************************************************************************)
InWorkspace(raw, text, stmts) == << << <<"Workspace">>, raw >>, FileNode(text, stmts) >>
WorkspaceWith(files) == WithEntries(EmptyGame, << << << <<"Workspace">> >>, DirNode >> >> \o files)
Anchored(b) == <<Stmt("Anchored", W(IF b THEN <<"t", "r", "u", "e">> ELSE <<"f", "a", "l", "s", "e">>))>>

DiffProjects ==
    << \* no entries
       EmptyGame,
       \* A at the origin and anchored, B at (5, 0, 0)
       WorkspaceWith(
          << InWorkspace(<<"A", "part">>, "CFrame = CFrame.new(0, 0, 0) Anchored = true",
                         PartAt(0, 0, 0) \o Anchored(TRUE)),
             InWorkspace(<<"B", "part">>, "CFrame = CFrame.new(5, 0, 0)", PartAt(5 * Unit, 0, 0)) >>),
       \* A moved by exactly 0.001
       WorkspaceWith(
          << InWorkspace(<<"A", "part">>, "CFrame = CFrame.new(0.001, 0, 0) Anchored = true",
                         PartAt(Epsilon, 0, 0) \o Anchored(TRUE)),
             InWorkspace(<<"B", "part">>, "CFrame = CFrame.new(5, 0, 0)", PartAt(5 * Unit, 0, 0)) >>),
       \* A moved by 0.002 and released, B moved by 0.001
       WorkspaceWith(
          << InWorkspace(<<"A", "part">>, "CFrame = CFrame.new(0.002, 0, 0) Anchored = false",
                         PartAt(2 * Epsilon, 0, 0) \o Anchored(FALSE)),
             InWorkspace(<<"B", "part">>, "CFrame = CFrame.new(5.001, 0, 0)",
                         PartAt(5 * Unit + Epsilon, 0, 0)) >>),
       \* A without Anchored and with Transparency, B at (5, 0, 0)
       WorkspaceWith(
          << InWorkspace(<<"A", "part">>, "CFrame = CFrame.new(0, 0, 0) Transparency = 0.5",
                         PartAt(0, 0, 0) \o <<Stmt("Transparency", Num(Unit \div 2))>>),
             InWorkspace(<<"B", "part">>, "CFrame = CFrame.new(5, 0, 0)", PartAt(5 * Unit, 0, 0)) >>),
       \* A without Anchored, B at (5, 0, 0)
       WorkspaceWith(
          << InWorkspace(<<"A", "part">>, "CFrame = CFrame.new(0, 0, 0)", PartAt(0, 0, 0)),
             InWorkspace(<<"B", "part">>, "CFrame = CFrame.new(5, 0, 0)", PartAt(5 * Unit, 0, 0)) >>),
       \* a Workspace without any Part
       WorkspaceWith(<< InWorkspace(<<"widgets", "model">>, "", TxtEmpty) >>),
       \* two scripts
       WithEntries(EmptyGame,
          << <<<< <<"ServerScriptService">> >>, DirNode>>,
             <<<< <<"ServerScriptService">>, <<"a", "server", "server", "lua">> >>,
               FileNode("print(2)", TxtEmpty)>>,
             <<<< <<"ServerScriptService">>, <<"main", "server", "lua">> >>,
               FileNode("print(1)", TxtEmpty)>> >>),
       \* the two scripts, the first one edited
       WithEntries(EmptyGame,
          << <<<< <<"ServerScriptService">> >>, DirNode>>,
             <<<< <<"ServerScriptService">>, <<"a", "server", "server", "lua">> >>,
               FileNode("print(3)", TxtEmpty)>>,
             <<<< <<"ServerScriptService">>, <<"main", "server", "lua">> >>,
               FileNode("print(1)", TxtEmpty)>> >>),
       \* A at the origin and released, B at (5, 0, 0)
       WorkspaceWith(
          << InWorkspace(<<"A", "part">>, "CFrame = CFrame.new(0, 0, 0) Anchored = false",
                         PartAt(0, 0, 0) \o Anchored(FALSE)),
             InWorkspace(<<"B", "part">>, "CFrame = CFrame.new(5, 0, 0)", PartAt(5 * Unit, 0, 0)) >>),
       \* A alone at the origin
       Projects[1],
       \* A moved to (10, 0, 0), B added at (5, 0, 0)
       Projects[2] >>

DiffTrees == {load_project(Some(DiffProjects[i])).val : i \in 1..Len(DiffProjects)}

InitDiff ==
    /\ LoadInit /\ SerdeInit /\ PipeIdle /\ ToolsIdle
    /\ oldTree \in DiffTrees
    /\ newTree \in DiffTrees
    /\ report = None

\* run.rs:87: compare_worlds(&old_world, &root).
Compare ==
    /\ report = None
    /\ report' \in {Some(r) : r \in compare_worlds(Get(oldTree), Get(newTree))}
    /\ UNCHANGED <<oldTree, newTree, loaderVars, serdeVars, pipeVars, toolVars>>

NextDiff == Compare
SpecDiff == InitDiff /\ [][NextDiff]_vars

(***************************************************************************)
(* Properties of the loader (SpecLoad)                                     *)
(***************************************************************************)
\* The instances of a tree, and its parent-child pairs.
RECURSIVE Descendants(_)
Descendants(inst) ==
    {inst} \cup UNION {Descendants(inst.children[i]) : i \in 1..Len(inst.children)}

Links(root) ==
    UNION {{<<p, p.children[i]>> : i \in 1..Len(p.children)} : p \in Descendants(root)}

\* The instance made from the entry at path: its id is the UUID of the path.
IsLoaded(root, path) ==
    \E i \in Descendants(root) : i.id = Uuid_new_v5(path_str(path))
InstanceOf(root, path) ==
    CHOOSE i \in Descendants(root) : i.id = Uuid_new_v5(path_str(path))

\* The extensions the table of map_extension_to_class lists.
TableExtensions ==
    {"basepart", "part", "model", "folder", "script", "localscript", "modulescript",
     "gui", "frame", "button", "label"}
HasSuffix(raw) == HasExt(raw) /\ Get(extension(raw)) \in TableExtensions

IsScriptFile(raw) ==
    /\ HasExt(raw) /\ Get(extension(raw)) = "lua"
    /\ \E x \in {"server", "local", "module"} : ends_with_dot(file_stem(raw), x)
IsDslFile(raw) ==
    HasExt(raw) /\ Get(extension(raw)) \notin {"json", ""} /\ ~IsScriptFile(raw)

Loaded == phase # "edit"

\* C7: the root of a loaded tree is DataModel / DataModel / "game", and
\* every other instance, whether made from a directory, a DSL file or a
\* script file, has full_path = <parent's full_path>/<its own name>.
C7_FullPathOfEveryInstance ==
    Loaded =>
        /\ Get(tree).class_name = "DataModel"
        /\ Get(tree).name = "DataModel"
        /\ Get(tree).full_path = "game"
        /\ \A l \in Links(Get(tree)) :
              l[2].full_path = l[1].full_path \o "/" \o l[2].name

\* The case of C7 that fails: a script file has been loaded.
C7_ScriptLoaded ==
    /\ Loaded
    /\ \E path \in DOMAIN fs :
        /\ fs[path].kind = "file" /\ IsScriptFile(Last(path))
        /\ IsLoaded(Get(tree), path)
        /\ InstanceOf(Get(tree), path).full_path = ""

\* C8: a directory whose name ends in a recognised dotted suffix loads
\* with the class the extension table gives for the suffix and with the
\* directory name minus the suffix as its name.
C8_DirectorySuffixGivesClass ==
    Loaded =>
        \A path \in DOMAIN fs :
            (fs[path].kind = "dir" /\ HasSuffix(Last(path))) =>
                /\ IsLoaded(Get(tree), path)
                /\ InstanceOf(Get(tree), path).class_name
                      = map_extension_to_class(Get(extension(Last(path))))
                /\ InstanceOf(Get(tree), path).name = JoinWith(Front(Last(path)), ".")

\* The case of C8 that fails: widgets.model is loaded as a Folder.
C8_SuffixedDirectoryIsFolder ==
    /\ Loaded
    /\ \E path \in DOMAIN fs :
        /\ fs[path].kind = "dir" /\ Last(path) = <<"widgets", "model">>
        /\ InstanceOf(Get(tree), path).name = "widgets"
        /\ InstanceOf(Get(tree), path).class_name = "Folder"

\* C9: a directory without a recognised suffix has a service class only
\* when it is a direct child of game/ and bears one of the ten service
\* names; any other such directory is a Folder.
C9_ServiceClassOnlyUnderGame ==
    Loaded =>
        \A path \in DOMAIN fs :
            (fs[path].kind = "dir" /\ ~HasSuffix(Last(path))) =>
                InstanceOf(Get(tree), path).class_name
                    = IF Len(path) = 1 /\ JoinWith(Last(path), ".") \in ServiceNames
                          THEN JoinWith(Last(path), ".")
                      ELSE "Folder"

\* The case of C9 that fails: a nested directory gets a service class.
C9_NestedServiceClass ==
    /\ Loaded
    /\ \E path \in DOMAIN fs :
        /\ fs[path].kind = "dir" /\ Len(path) > 1
        /\ InstanceOf(Get(tree), path).class_name \in ServiceNames

\* C10: a non-script file whose extension is neither json nor empty has
\* the class of its extension in the table and, when the extension is not
\* in the table and the DSL gives no ClassName, the class Unknown.
C10_UnknownExtensionIsUnknown ==
    Loaded =>
        \A path \in DOMAIN fs :
            (fs[path].kind = "file" /\ IsDslFile(Last(path))) =>
                LET inst == InstanceOf(Get(tree), path)
                    ext == Get(extension(Last(path)))
                    overridden == /\ "ClassName" \in DOMAIN inst.properties
                                  /\ inst.properties["ClassName"].tag = "String"
                IN  /\ IsLoaded(Get(tree), path)
                    /\ ~overridden =>
                          inst.class_name = IF ext \in TableExtensions
                                                THEN map_extension_to_class(ext)
                                            ELSE "Unknown"

\* The case of C10 that fails: notes.txt is loaded as a Folder.
C10_UnknownExtensionIsFolder ==
    /\ Loaded
    /\ \E path \in DOMAIN fs :
        /\ fs[path].kind = "file" /\ Last(path) = <<"notes", "txt">>
        /\ InstanceOf(Get(tree), path).class_name = "Folder"

\* C5: two loads of the same unchanged project serialise to the same
\* world.json text, key order of every properties object included.
C5_WorldJsonByteIdentical ==
    phase = "saved2" => json1 = json2

\* The case of C5 that fails: both texts were written from one project
\* and differ.
C5_TwoTextsDiffer == phase = "saved2" /\ json1 # json2

(***************************************************************************)
(* Properties of the property round trip (SpecSerde)                       *)
(***************************************************************************)
\* C6: for every variant, reading back the JSON a PropertyValue was
\* written as gives a value equal to the original, of the same variant.
C6_PropertyValueRoundTrip ==
    IsSome(pvBack) =>
        /\ Get(pvBack).ok
        /\ PvEq(Get(Get(pvBack).val), Get(pv))

\* The case of C6 that fails: an Enum comes back as a String.
C6_EnumReadAsString ==
    /\ IsSome(pvBack) /\ Get(pv).tag = "Enum"
    /\ Get(pvBack).ok /\ Get(Get(pvBack).val).tag = "String"

(***************************************************************************)
(* Properties of the pipeline (Spec)                                       *)
(***************************************************************************)
Ran == run.n > 0
WorldParses(w) == IsSome(w) /\ de_instance(Get(w)).ok

C2_RelaxedModeNoGating ==
    (Ran /\ run.options.relaxed /\ run.game # 0) =>
        /\ "diagnostics.json" \in run.written
        /\ IsSome(run.after.diagnostics) /\ Get(run.after.diagnostics).errors = <<>>
        /\ run.result # "exit1"
        /\ run.options.render => "render.png" \in run.written

\* The case of C2 that fails: a relaxed run with render set that ends in
\* a panic of the GUI overlay and leaves no render.png.
C2_RelaxedRenderPanics ==
    /\ Ran /\ run.options.relaxed /\ run.options.render /\ run.game # 0
    /\ run.result = "panic" /\ "render.png" \notin run.written

\* C3: without game/ the load fails, run_project fails with it, and no
\* result file is written or modified; an existing world.json is kept.
C3_NoGameDirectoryWritesNothing ==
    (Ran /\ run.game = 0) =>
        /\ ~load_project(GameDir(run.game)).ok
        /\ run.result = "err"
        /\ run.written = {}
        /\ run.after = run.before

\* A run without game/ over a results directory that holds a world.json.
C3_FailedRunKeepsWorld ==
    /\ Ran /\ run.game = 0 /\ run.result = "err"
    /\ IsSome(run.before.world) /\ run.after.world = run.before.world

\* C4: diff.json is written in a run exactly when diff was requested, the
\* world.json found at the start parsed as a tree and the load succeeded;
\* with diff requested and world.json missing or unparsable the run goes
\* on as the same run without diff would.
C4_DiffSkippedWithoutOldWorld ==
    Ran =>
        /\ "diff.json" \in run.written
              <=> (run.options.diff /\ WorldParses(run.before.world) /\ run.game # 0)
        /\ (run.options.diff /\ ~WorldParses(run.before.world) /\ run.game # 0) =>
              /\ run.after.diff = run.before.diff
              /\ "world.json" \in run.written
              /\ \E env \in AnalyzerEnvs(GameDir(run.game)) :
                    \E o \in run_project(GameDir(run.game), run.before,
                                         [run.options EXCEPT !.diff = FALSE], env) :
                        /\ o.results = run.after
                        /\ o.result = run.result
                        /\ o.written = run.written

\* A diff run that found a world.json that is no tree and went on.
C4_UnparsableWorldSkipsDiff ==
    /\ Ran /\ run.options.diff /\ run.game # 0
    /\ run.before.world = Some(NotATree)
    /\ "diff.json" \notin run.written /\ "world.json" \in run.written
    /\ run.result = "ok"


(***************************************************************************)
(* Properties of the loader (SpecLoad), continued                          *)
(***************************************************************************)
IdOf(path) == Uuid_new_v5(path_str(path))

\* The places (parent, index) of a tree whose child has the id.
Slots(root, id) ==
    UNION {{<<p, i>> : i \in {j \in 1..Len(p.children) : p.children[j].id = id}} :
           p \in Descendants(root)}

ScriptClass(raw) ==
    CASE Last(file_stem(raw)) = "server" -> "Script"
      [] Last(file_stem(raw)) = "local" -> "LocalScript"
      [] Last(file_stem(raw)) = "module" -> "ModuleScript"

\* C11: a file X.server.lua, X.local.lua or X.module.lua yields exactly
\* one instance, of class Script, LocalScript or ModuleScript, named by
\* the stem minus that one compound suffix, whose only property is
\* Source, a String holding the file's text.
C11_ScriptFileGivesOneScript ==
    Loaded =>
        \A path \in DOMAIN fs :
            (fs[path].kind = "file" /\ IsScriptFile(Last(path))) =>
                /\ Cardinality(Slots(Get(tree), IdOf(path))) = 1
                /\ InstanceOf(Get(tree), path).class_name = ScriptClass(Last(path))
                /\ InstanceOf(Get(tree), path).name
                      = JoinWith(Front(file_stem(Last(path))), ".")
                /\ InstanceOf(Get(tree), path).properties
                      = [k \in {"Source"} |-> PvString(fs[path].raw)]

\* The case of C11 that fails: a.server.server.lua is named a, both
\* suffixes gone.
C11_RepeatedSuffixStripped ==
    /\ Loaded
    /\ \E path \in DOMAIN fs :
        /\ fs[path].kind = "file" /\ Last(path) = <<"a", "server", "server", "lua">>
        /\ InstanceOf(Get(tree), path).class_name = "Script"
        /\ InstanceOf(Get(tree), path).name = "a"

\* An entry the loop of load_directory passes over: a json or
\* extensionless file.
IsSkipped(f, path) ==
    /\ f[path].kind = "file"
    /\ (~HasExt(Last(path)) \/ Get(extension(Last(path))) \in {"json", ""})

InstanceOfDir(root, dir) == IF dir = <<>> THEN root ELSE InstanceOf(root, dir)

\* The raw name of the entry of dir a child was made from.
RawOf(f, dir, kid) == CHOOSE raw \in EntryNames(f, dir) : kid.id = IdOf(Append(dir, raw))

\* C12: in a loaded tree the children of every instance follow the
\* ascending order of the raw names of the entries they were made from;
\* a json or extensionless file gives no child, any other entry one.
C12_ChildrenInFilenameOrder ==
    Loaded =>
        \A dir \in Dirs(fs) :
            LET kids == InstanceOfDir(Get(tree), dir).children
                yielding == {raw \in EntryNames(fs, dir) : ~IsSkipped(fs, Append(dir, raw))}
            IN  /\ Len(kids) = Cardinality(yielding)
                /\ \A raw \in yielding :
                      \E i \in 1..Len(kids) : kids[i].id = IdOf(Append(dir, raw))
                /\ \A raw \in EntryNames(fs, dir) \ yielding :
                      ~IsLoaded(Get(tree), Append(dir, raw))
                /\ \A i, j \in 1..Len(kids) :
                      i < j => Rank(RawOf(fs, dir, kids[i])) < Rank(RawOf(fs, dir, kids[j]))

\* A directory loaded with two children and a skipped entry.
C12_TwoChildrenOneSkipped ==
    /\ Loaded
    /\ \E dir \in Dirs(fs) :
        /\ Len(InstanceOfDir(Get(tree), dir).children) = 2
        /\ \E raw \in EntryNames(fs, dir) : IsSkipped(fs, Append(dir, raw))

\* The assignments of a text before its first unparseable statement.
RECURSIVE WellFormedPrefix(_)
WellFormedPrefix(stmts) ==
    IF Len(stmts) = 0 \/ Head(stmts).val.lit = "junk" THEN <<>>
    ELSE <<Head(stmts)>> \o WellFormedPrefix(Tail(stmts))

PropertiesOf(stmts) ==
    MapOfPairs([i \in 1..Len(stmts) |->
                    <<stmts[i].key, Get(parse_value(stmts[i].val).value)>>])

\* C13: a DSL file whose text stops being parseable after k well-formed
\* assignments does not abort load_project; its instance is a child and
\* carries exactly the properties of those k assignments, the ClassName
\* and Name overrides among them applied.
C13_PartialDslKeepsParsedPrefix ==
    Loaded =>
        /\ load_project(Some(fs)).ok
        /\ \A path \in DOMAIN fs :
            (fs[path].kind = "file" /\ IsDslFile(Last(path))) =>
                LET inst == InstanceOf(Get(tree), path)
                    props == PropertiesOf(WellFormedPrefix(fs[path].stmts))
                    IsStr(k) == k \in DOMAIN props /\ props[k].tag = "String"
                IN  /\ Cardinality(Slots(Get(tree), IdOf(path))) = 1
                    /\ inst.properties = props
                    /\ inst.class_name = IF IsStr("ClassName") THEN props["ClassName"].v
                                         ELSE map_extension_to_class(Get(extension(Last(path))))
                    /\ inst.name = IF IsStr("Name") THEN props["Name"].v
                                   ELSE JoinWith(file_stem(Last(path)), ".")

\* A loaded file whose third statement is unparseable: the two
\* assignments before it are kept, the one after it is not.
C13_BrokenFileLoaded ==
    /\ Loaded
    /\ \E path \in DOMAIN fs :
        /\ fs[path].kind = "file" /\ fs[path].stmts = TxtBroken
        /\ IsLoaded(Get(tree), path)
        /\ DOMAIN InstanceOf(Get(tree), path).properties = {"Name", "Anchored"}
        /\ InstanceOf(Get(tree), path).name = "Early"

\* The box of one Part, from its properties alone: the translation of its
\* transform plus and minus half its Size (the model's CFrames carry the
\* identity basis, so the eight corners span exactly this box).
PartBox(p) ==
    LET s == part_size(p)
        t == part_transform(p).t
    IN  Aabb(Vec3(t.x - s.x \div 2, t.y - s.y \div 2, t.z - s.z \div 2),
             Vec3(t.x + s.x \div 2, t.y + s.y \div 2, t.z + s.z \div 2))
SetMin(S) == CHOOSE m \in S : \A x \in S : m <= x
SetMax(S) == CHOOSE m \in S : \A x \in S : m >= x
\* The Parts of a subtree, the instance itself included.
PartsOf(inst) == {d \in Descendants(inst) : IsPart(d)}

\* C15: after enrichment every instance has world_bounds exactly when it is
\* a Part / BasePart or has a Part descendant; the bounds are then the
\* componentwise min / max hull of the boxes of all those Parts and center
\* is their midpoint (min + max) / 2; otherwise world_bounds and center are
\* both empty.
C15_BoundsAreHullOfParts ==
    Loaded =>
        \A inst \in Descendants(Get(tree)) :
            \E boxes \in {{PartBox(p) : p \in PartsOf(inst)}} :
                IF boxes = {} THEN inst.world_bounds = None /\ inst.center = None
                ELSE /\ IsSome(inst.world_bounds)
                     /\ IsSome(inst.center)
                     /\ \E b \in {Get(inst.world_bounds)}, c \in {Get(inst.center)} :
                            /\ b.min.x = SetMin({x.min.x : x \in boxes})
                            /\ b.min.y = SetMin({x.min.y : x \in boxes})
                            /\ b.min.z = SetMin({x.min.z : x \in boxes})
                            /\ b.max.x = SetMax({x.max.x : x \in boxes})
                            /\ b.max.y = SetMax({x.max.y : x \in boxes})
                            /\ b.max.z = SetMax({x.max.z : x \in boxes})
                            /\ 2 * c.x = b.min.x + b.max.x
                            /\ 2 * c.y = b.min.y + b.max.y
                            /\ 2 * c.z = b.min.z + b.max.z

\* C15 witness: a loaded instance that is no Part itself and whose bounds
\* are the hull of two Parts with different boxes is reached, next to an
\* instance without any bounds.
C15_HullOfTwoParts ==
    /\ Loaded
    /\ \E inst \in Descendants(Get(tree)) :
          /\ ~IsPart(inst)
          /\ IsSome(inst.world_bounds)
          /\ IsSome(inst.center)
          /\ \E p, q \in PartsOf(inst) :
                /\ PartBox(p) # PartBox(q)
                /\ Get(inst.world_bounds) # PartBox(p)
                /\ Get(inst.world_bounds) # PartBox(q)
    /\ \E inst \in Descendants(Get(tree)) :
          inst.world_bounds = None /\ inst.center = None

\* C29: in a tree produced by load_project no two distinct instances have
\* the same full_path (so that a map keyed by full_path keeps one entry
\* per instance).
C29_FullPathsAreDistinct ==
    Loaded =>
        \A a, b \in Descendants(Get(tree)) : a.id # b.id => a.full_path # b.full_path

\* The case of C29 that fails: two script files have been loaded and both
\* instances have the full_path "", so the flattened tree has fewer
\* entries than the tree has instances.
C29_TwoScriptsShareEmptyPath ==
    /\ Loaded
    /\ \E a, b \in Descendants(Get(tree)) :
          /\ a.id # b.id
          /\ a.class_name = "Script" /\ b.class_name = "Script"
          /\ a.full_path = "" /\ b.full_path = ""
    /\ Cardinality(DOMAIN flatten_instance(Get(tree))) < Cardinality(Descendants(Get(tree)))

(***************************************************************************)
(* Properties of the DSL values (SpecSerde)                                *)
(***************************************************************************)
\* C14: the value of an assignment that is a bare identifier parses as
\* a String holding the whole identifier, whatever its prefix, unless the
\* identifier is exactly true or false, which give Bool.
C14_BareIdentifierIsString ==
    (IsSome(pv) /\ Get(literal).lit = "word") =>
        PvEq(Get(pv),
             IF Get(literal).txt = <<"t", "r", "u", "e">> THEN PvBool(TRUE)
             ELSE IF Get(literal).txt = <<"f", "a", "l", "s", "e">> THEN PvBool(FALSE)
             ELSE PvString(Concat(Get(literal).txt)))

\* The case of C14 that fails: the identifier trueish parses as Bool.
C14_PrefixedIdentifierIsBool ==
    /\ IsSome(pv)
    /\ Get(literal) = Word(<<"t", "r", "u", "e", "i", "s", "h">>)
    /\ PvEq(Get(pv), PvBool(TRUE))

(***************************************************************************)
(* Properties of the diff engine (SpecDiff)                                *)
(***************************************************************************)
Compared == IsSome(report)
Changes == Get(report).changes
PathsOf(t) == {d.full_path : d \in Descendants(t)}
OnlyNew == PathsOf(Get(newTree)) \ PathsOf(Get(oldTree))
OnlyOld == PathsOf(Get(oldTree)) \ PathsOf(Get(newTree))
InBoth == PathsOf(Get(oldTree)) \cap PathsOf(Get(newTree))

\* C16: comparing a tree with itself reports status "unchanged" and empty
\* lists of added, removed and modified instances.
C16_SameTreeUnchanged ==
    (Compared /\ oldTree = newTree) =>
        /\ Get(report).status = "unchanged"
        /\ Changes.added_instances = <<>>
        /\ Changes.removed_instances = <<>>
        /\ Changes.modified_instances = <<>>

\* C16 witness: a tree holding Parts with properties and centers has been
\* compared with itself.
C16_TreeWithPartsComparedToItself ==
    /\ Compared
    /\ oldTree = newTree
    /\ \E d \in Descendants(Get(newTree)) :
            IsPart(d) /\ "Anchored" \in DOMAIN d.properties /\ IsSome(d.center)

\* C17: added_instances holds exactly the full_paths of the new tree that
\* the old tree lacks and removed_instances exactly those of the old tree
\* that the new tree lacks, each path once; no path is in both lists and no
\* path of both trees is in either.
C17_AddedRemovedAreSetDifferences ==
    Compared =>
        /\ Range(Changes.added_instances) = OnlyNew
        /\ Len(Changes.added_instances) = Cardinality(OnlyNew)
        /\ Range(Changes.removed_instances) = OnlyOld
        /\ Len(Changes.removed_instances) = Cardinality(OnlyOld)
        /\ Range(Changes.added_instances) \cap Range(Changes.removed_instances) = {}
        /\ InBoth \cap (Range(Changes.added_instances) \cup Range(Changes.removed_instances)) = {}

\* C17 witness: a comparison with two added paths, two removed paths and a
\* path that both trees hold.
C17_AddedAndRemoved ==
    /\ Compared
    /\ Len(Changes.added_instances) >= 2
    /\ Len(Changes.removed_instances) >= 2
    /\ InBoth # {}

\* The position at which a depth-first walk of t first visits path q.
FirstVisit(t, q) ==
    CHOOSE i \in 1..Len(flatten_pairs(t)) :
        /\ flatten_pairs(t)[i][1] = q
        /\ \A j \in 1..(i - 1) : flatten_pairs(t)[j][1] # q
InWalkOrder(paths, t) ==
    \A i, j \in 1..Len(paths) : i < j => FirstVisit(t, paths[i]) < FirstVisit(t, paths[j])
ModifiedPaths == [i \in 1..Len(Changes.modified_instances) |-> Changes.modified_instances[i].path]

\* C18: the lists of a report follow traversal order: added_instances and
\* modified_instances list their paths in the order a depth-first walk of
\* the new tree visits them, removed_instances in the order a depth-first
\* walk of the old tree visits them.
C18_ListsInTraversalOrder ==
    Compared =>
        /\ InWalkOrder(Changes.added_instances, Get(newTree))
        /\ InWalkOrder(ModifiedPaths, Get(newTree))
        /\ InWalkOrder(Changes.removed_instances, Get(oldTree))

\* The case of C18 that fails: a report lists an added child before its
\* added parent, which the walk of the new tree visits first.
C18_ChildListedBeforeParent ==
    /\ Compared
    /\ \E i, j \in 1..Len(Changes.added_instances) :
          /\ i < j
          /\ \E p \in Descendants(Get(newTree)) :
                /\ p.full_path = Changes.added_instances[j]
                /\ \E k \in 1..Len(p.children) :
                      p.children[k].full_path = Changes.added_instances[i]

\* The instance a tree holds at path q (the one the flattened map keeps)
\* and the entries of modified_instances for q.
Kept(t, q) == flatten_instance(t)[q]
EntriesAt(q) ==
    {Changes.modified_instances[i] : i \in {j \in 1..Len(Changes.modified_instances) :
                                                Changes.modified_instances[j].path = q}}
RecordedAt(q) ==
    IF EntriesAt(q) = {} THEN {} ELSE DOMAIN (CHOOSE e \in EntriesAt(q) : TRUE).property_changes
SpatialAt(q) ==
    IF EntriesAt(q) = {} THEN None ELSE (CHOOSE e \in EntriesAt(q) : TRUE).spatial_change

\* C19: for a path of both trees, property_changes has an entry for k
\* exactly when the new instance has k and the old one either lacks it
\* (the entry's old is "null") or holds a different value; a property of
\* the old side alone gives no entry and does not make the instance
\* modified.
C19_PropertyChangesFollowNewSide ==
    Compared =>
        \A q \in InBoth :
            \E o \in {Kept(Get(oldTree), q).properties}, n \in {Kept(Get(newTree), q).properties},
               oc \in {Kept(Get(oldTree), q).center}, nc \in {Kept(Get(newTree), q).center},
               es \in {EntriesAt(q)}, recorded \in {RecordedAt(q)} :
                /\ Cardinality(es) <= 1
                /\ recorded \subseteq DOMAIN n
                /\ \A k \in DOMAIN n :
                      k \in recorded <=> (k \notin DOMAIN o \/ ~PvEq(n[k], o[k]))
                /\ \A k \in recorded :
                      \E e \in es :
                          /\ e.property_changes[k].new = DebugFmt(n[k])
                          /\ e.property_changes[k].old =
                                IF k \in DOMAIN o THEN DebugFmt(o[k]) ELSE NullStr
                /\ ((\A k \in DOMAIN n : k \in DOMAIN o /\ PvEq(n[k], o[k])) /\ oc = nc)
                        => es = {}

\* C19 witness: an instance compared with its earlier self has gained one
\* property, recorded with old = "null", and lost another, not recorded.
C19_PropertyGainedAndLost ==
    /\ Compared
    /\ \E q \in InBoth :
          \E o \in {Kept(Get(oldTree), q).properties}, n \in {Kept(Get(newTree), q).properties} :
              /\ \E k \in DOMAIN n \ DOMAIN o :
                    \E e \in EntriesAt(q) :
                        k \in DOMAIN e.property_changes /\ e.property_changes[k].old = NullStr
              /\ \E k \in DOMAIN o \ DOMAIN n : k \notin RecordedAt(q)

\* C20: for a path of both trees, spatial_change is present exactly when
\* both instances have a center and the distance between the centers is
\* greater than 0.001; it then carries the old center, the new center and
\* that distance (its square root, to the tick).
C20_SpatialChangeBeyondEpsilon ==
    Compared =>
        \A q \in InBoth :
            \E oc \in {Kept(Get(oldTree), q).center}, nc \in {Kept(Get(newTree), q).center},
               sc \in {SpatialAt(q)} :
                /\ IsSome(sc) <=>
                        /\ IsSome(oc)
                        /\ IsSome(nc)
                        /\ Dist2(Get(oc), Get(nc)) > Epsilon * Epsilon
                /\ IsSome(sc) =>
                        /\ Get(sc).old_center = oc
                        /\ Get(sc).new_center = nc
                        /\ Get(sc).displacement * Get(sc).displacement <= Dist2(Get(oc), Get(nc))
                        /\ Dist2(Get(oc), Get(nc)) <
                                (Get(sc).displacement + 1) * (Get(sc).displacement + 1)

\* C20 witness: in one comparison a Part moved by 0.002 has a spatial
\* change and a Part moved by exactly 0.001 has none.
C20_MovedBeyondAndAtEpsilon ==
    /\ Compared
    /\ \E q \in InBoth :
          /\ IsSome(SpatialAt(q))
          /\ Get(SpatialAt(q)).displacement = 2 * Epsilon
    /\ \E q \in InBoth :
          \E oc \in {Kept(Get(oldTree), q).center}, nc \in {Kept(Get(newTree), q).center} :
              /\ IsSome(oc)
              /\ IsSome(nc)
              /\ Dist2(Get(oc), Get(nc)) = Epsilon * Epsilon
              /\ EntriesAt(q) # {}
              /\ SpatialAt(q) = None

\* The places (an instance and a key) where two trees of the same shape
\* hold different property values; Shape is everything of an instance but
\* its property values and its children.
Shape(d) ==
    [id |-> d.id, name |-> d.name, class_name |-> d.class_name, full_path |-> d.full_path,
     keys |-> DOMAIN d.properties, center |-> d.center, world_bounds |-> d.world_bounds,
     kids |-> [i \in 1..Len(d.children) |-> d.children[i].id]]
ById(t, id) == CHOOSE d \in Descendants(t) : d.id = id
ValueChanges(old, new) ==
    UNION {{<<d.id, k>> : k \in {k \in DOMAIN d.properties :
                                    ~PvEq(d.properties[k], ById(old, d.id).properties[k])}} :
           d \in Descendants(new)}
SpatialKeys == {"CFrame", "Position", "Size"}
DifferInOneProperty(old, new) ==
    /\ {Shape(d) : d \in Descendants(old)} = {Shape(d) : d \in Descendants(new)}
    /\ Cardinality(ValueChanges(old, new)) = 1
    /\ \A c \in ValueChanges(old, new) : c[2] \notin SpatialKeys

\* C21: when the two trees differ only in the value of one non-spatial
\* property of one instance, modified_instances has exactly one entry, for
\* that instance, with exactly one property change (that property) and no
\* spatial change, and added_instances and removed_instances are empty.
C21_OnePropertyOneEntry ==
    (Compared /\ DifferInOneProperty(Get(oldTree), Get(newTree))) =>
        \E c \in ValueChanges(Get(oldTree), Get(newTree)) :
            /\ Changes.added_instances = <<>>
            /\ Changes.removed_instances = <<>>
            /\ Len(Changes.modified_instances) = 1
            /\ Changes.modified_instances[1].path = ById(Get(newTree), c[1]).full_path
            /\ DOMAIN Changes.modified_instances[1].property_changes = {c[2]}
            /\ Changes.modified_instances[1].spatial_change = None

\* The case of C21 that fails: the Source of one of two scripts differs
\* between the trees and the report is "unchanged".
C21_EditedScriptUnreported ==
    /\ Compared
    /\ DifferInOneProperty(Get(oldTree), Get(newTree))
    /\ \E c \in ValueChanges(Get(oldTree), Get(newTree)) : c[2] = "Source"
    /\ Get(report).status = "unchanged"
    /\ Changes.modified_instances = <<>>

TreeOf(project) == load_project(Some(project)).val
AddedAndMoved == oldTree = TreeOf(Projects[1]) /\ newTree = TreeOf(Projects[2])

\* C22: with the Part game/Workspace/A at (0, 0, 0) in the old tree, and A
\* at (10, 0, 0) plus a new Part game/Workspace/B at (5, 0, 0) in the new
\* tree, the report has added_instances = [game/Workspace/B], one modified
\* instance, A, with a spatial change of displacement 10, and status
\* "changed".
C22_AddedAndMovedReport ==
    (Compared /\ AddedAndMoved) =>
        /\ Get(report).status = "changed"
        /\ Changes.added_instances = <<"game/Workspace/B">>
        /\ Len(Changes.modified_instances) = 1
        /\ Changes.modified_instances[1].path = "game/Workspace/A"
        /\ IsSome(Changes.modified_instances[1].spatial_change)
        /\ Get(Changes.modified_instances[1].spatial_change).displacement = 10 * Unit

\* The case of C22 as the code reports it: next to A, moved by 10, the
\* ancestors game/Workspace and game are modified, their centers having
\* moved with the hull of their Parts.
C22_AncestorsModifiedToo ==
    /\ Compared
    /\ AddedAndMoved
    /\ Changes.added_instances = <<"game/Workspace/B">>
    /\ Len(Changes.modified_instances) = 3
    /\ IsSome(SpatialAt("game/Workspace/A"))
    /\ Get(SpatialAt("game/Workspace/A")).displacement = 10 * Unit
    /\ IsSome(SpatialAt("game/Workspace"))
    /\ Get(SpatialAt("game/Workspace")).displacement = (15 * Unit) \div 2
    /\ IsSome(SpatialAt("game"))

\* C23: the status of a report is "changed" exactly when at least one of
\* added_instances, removed_instances and modified_instances is non-empty,
\* and "unchanged" otherwise.
C23_StatusChangedIffListsNonEmpty ==
    Compared =>
        /\ Get(report).status \in {"changed", "unchanged"}
        /\ Get(report).status = "changed" <=>
                \/ Changes.added_instances # <<>>
                \/ Changes.removed_instances # <<>>
                \/ Changes.modified_instances # <<>>

\* C23 witness: a report whose only non-empty list is modified_instances
\* has status "changed".
C23_ChangedByModificationAlone ==
    /\ Compared
    /\ Changes.added_instances = <<>>
    /\ Changes.removed_instances = <<>>
    /\ Changes.modified_instances # <<>>
    /\ Get(report).status = "changed"

(***************************************************************************)
(* Properties of the presets (SpecPreset)                                  *)
(***************************************************************************)
DebugFlags(o) == <<o.debug_bounds, o.debug_origin, o.debug_axes>>
AllDebug == <<TRUE, TRUE, TRUE>>

\* C24: apply_preset, from any bag of options: "agent" gives relaxed =
\* false, render = true, diff = true and the three debug flags true; "ci"
\* gives relaxed = false and diff = true and leaves render and the debug
\* flags as they were; "debug" gives relaxed = true, render = true and the
\* three debug flags true and leaves diff as it was; any other name is an
\* error and leaves every option as it was.  No preset touches target.
C24_PresetsSetTheirOptions ==
    IsSome(preset) =>
        \E b \in {Get(preset).before}, n \in {Get(preset).name} :
            /\ opts.target = b.target
            /\ n = "agent" =>
                    /\ Get(preset).ok
                    /\ ~opts.relaxed /\ opts.render /\ opts.diff
                    /\ DebugFlags(opts) = AllDebug
            /\ n = "ci" =>
                    /\ Get(preset).ok
                    /\ ~opts.relaxed /\ opts.diff
                    /\ opts.render = b.render
                    /\ DebugFlags(opts) = DebugFlags(b)
            /\ n = "debug" =>
                    /\ Get(preset).ok
                    /\ opts.relaxed /\ opts.render
                    /\ DebugFlags(opts) = AllDebug
                    /\ opts.diff = b.diff
            /\ n \notin {"agent", "ci", "debug"} =>
                    /\ ~Get(preset).ok
                    /\ opts = b

\* C24 witness: "ci" applied to a relaxed bag that asked for a render and
\* no diff: relaxed and diff change, render stays on.
C24_CiKeepsRender ==
    /\ IsSome(preset)
    /\ Get(preset).name = "ci"
    /\ Get(preset).before.render /\ Get(preset).before.relaxed /\ ~Get(preset).before.diff
    /\ opts.render /\ ~opts.relaxed /\ opts.diff

(***************************************************************************)
(* Properties of the Z-buffer (SpecRaster)                                 *)
(***************************************************************************)
\* The draw_pixel calls made at pixel (x, y), by their position in draws.
HitsAt(x, y) == {i \in 2..Len(draws) : draws[i].x = x /\ draws[i].y = y}
MinDepthAt(x, y) == SetMin({draws[i].z : i \in HitsAt(x, y)})
FirstAtMinDepth(x, y) == SetMin({i \in HitsAt(x, y) : draws[i].z = MinDepthAt(x, y)})

\* C25: after clear and any sequence of draw_pixel calls, every pixel of the
\* image has in the Z-buffer the least depth drawn at it (+infinity if
\* none) and the colour of the earliest call that drew this least depth
\* (the clear colour if none); calls with x >= width or y >= height are no
\* hits of any pixel.
C25_ZBufferKeepsNearest ==
    draws # <<>> =>
        \A x \in 0..(Get(ctx).width - 1), y \in 0..(Get(ctx).height - 1) :
            \E idx \in {y * Get(ctx).width + x} :
                IF HitsAt(x, y) = {}
                    THEN /\ Get(ctx).z_buffer[idx] = Infinity
                         /\ Get(ctx).buffer[idx] = draws[1].color
                ELSE /\ Get(ctx).z_buffer[idx] = Some(MinDepthAt(x, y))
                     /\ Get(ctx).buffer[idx] = draws[FirstAtMinDepth(x, y)].color

\* C25 witness: one pixel was drawn at depth 1 and then again at depth 1
\* in another colour; it keeps the colour of the first call.
C25_TieKeepsEarliest ==
    /\ Len(draws) = 3
    /\ draws[2].x = 0 /\ draws[2].y = 0 /\ draws[2].z = 1 /\ draws[2].color = "green"
    /\ draws[3].x = 0 /\ draws[3].y = 0 /\ draws[3].z = 1 /\ draws[3].color = "red"
    /\ Get(ctx).buffer[0] = "green"
    /\ Get(ctx).z_buffer[0] = Some(1)

(***************************************************************************)
(* Properties of the GUI overlay (SpecGui)                                 *)
(***************************************************************************)
\* The chains of instances leading from i down to each instance below it.
RECURSIVE ChainsFrom(_)
ChainsFrom(i) ==
    {<<i>>} \cup UNION {{<<i>> \o c : c \in ChainsFrom(i.children[k])} : k \in 1..Len(i.children)}
ScreenGuis(root) ==
    UNION {{g \in Range(sg.children) : g.class_name = "ScreenGui"} :
           sg \in {c \in Range(root.children) : c.class_name = "StarterGui"}}
FrameChains(root) ==
    {c \in UNION {ChainsFrom(g) : g \in ScreenGuis(root)} : Last(c).class_name = "Frame"}
Viewport == [x |-> 0, y |-> 0, w |-> WIDTH * Unit, h |-> HEIGHT * Unit]
\* The rectangle of one instance inside the rectangle r of its parent.
Resolve(inst, r) ==
    IF inst.class_name # "Frame" THEN r
    ELSE [x |-> IF HasProp(inst, "Position", "UDim2")
                    THEN r.x + (inst.properties["Position"].v.xs * r.w) \div Unit
                             + inst.properties["Position"].v.xo * Unit
                ELSE r.x,
          y |-> IF HasProp(inst, "Position", "UDim2")
                    THEN r.y + (inst.properties["Position"].v.ys * r.h) \div Unit
                             + inst.properties["Position"].v.yo * Unit
                ELSE r.y,
          w |-> IF HasProp(inst, "Size", "UDim2")
                    THEN (inst.properties["Size"].v.xs * r.w) \div Unit
                             + inst.properties["Size"].v.xo * Unit
                ELSE r.w,
          h |-> IF HasProp(inst, "Size", "UDim2")
                    THEN (inst.properties["Size"].v.ys * r.h) \div Unit
                             + inst.properties["Size"].v.yo * Unit
                ELSE r.h]
RECURSIVE RectAlong(_, _)
RectAlong(chain, r) ==
    IF Len(chain) = 0 THEN r ELSE RectAlong(Tail(chain), Resolve(Head(chain), r))
\* The Frames below a ScreenGui of StarterGui, in the order of the walk,
\* each with its rectangle in whole pixels.
WalkedFrames(root) ==
    SelectSeq([i \in 1..Len(flatten_pairs(root)) |-> flatten_pairs(root)[i][2]],
              LAMBDA d : \E c \in FrameChains(root) : Last(c).id = d.id)
PixelRectOf(root, d) ==
    LET r == RectAlong(CHOOSE c \in FrameChains(root) : Last(c).id = d.id, Viewport)
    IN  [x |-> AsI32(r.x), y |-> AsI32(r.y), w |-> AsU32(r.w), h |-> AsU32(r.h)]
ExpectedRects(root) ==
    [i \in 1..Len(WalkedFrames(root)) |-> PixelRectOf(root, WalkedFrames(root)[i])]

FieldTexts(l) == [i \in 1..Len(l) |-> l[i].txt]
HasColumn(l) == Len(l) >= 3 /\ IsSome(l[3].num)
\* <file>:<line>:<col>?:<message> with a line number n and a message tail.
IsDiagnosticLine(l, n) ==
    /\ Len(l) >= 3
    /\ l[2].num = Some(n)
    /\ HasColumn(l) => Len(l) >= 4
MessageTail(l) ==
    trim(JoinWith(SubSeq(FieldTexts(l), IF HasColumn(l) THEN 4 ELSE 3, Len(l)), ":"))

\* C27: parse_luau_line yields a diagnostic exactly for the lines
\* <file>:<line>:<col>?:<message> whose <line> is a positive integer and
\* that have a message tail; the diagnostic carries the path of the file
\* analysed, that line number, the tail as message and severity "error";
\* every other line yields none.
C27_DiagnosticForPositiveLineOnly ==
    IsSome(diagnostic) =>
        \E l \in {Get(outLine)}, d \in {Get(diagnostic)} :
            /\ IsSome(d) <=> \E n \in 1..16 : IsDiagnosticLine(l, n)
            /\ IsSome(d) =>
                    /\ Get(d).file = AnalysedFile
                    /\ Some(Get(d).line) = l[2].num
                    /\ Get(d).message = MessageTail(l)
                    /\ Get(d).severity = "error"

\* The case of C27 that fails: the line main.server.lua:0: TypeError: oops
\* yields a diagnostic, at line 0.
C27_LineZeroAccepted ==
    /\ IsSome(diagnostic)
    /\ Get(outLine) = <<TextField("main.server.lua"), NumField("0", 0),
                         TextField(" TypeError"), TextField(" oops")>>
    /\ IsSome(Get(diagnostic))
    /\ Get(Get(diagnostic)).line = 0
    /\ Get(Get(diagnostic)).message = "TypeError: oops"

(***************************************************************************)
(* Properties of consecutive runs (SpecRuns)                               *)
(***************************************************************************)
\* Two runs with --diff over the same project, both past the load.
RanTwiceUnchanged ==
    /\ run.n = 2
    /\ run.game = run.prior.game
    /\ run.options.diff /\ run.prior.options.diff
    /\ run.result # "err" /\ run.prior.result # "err"

\* C28: a second run with --diff over an unchanged project writes a
\* diff.json with status "unchanged" and three empty lists: the tree read
\* back from world.json equals the freshly loaded one.
C28_SecondRunReportsUnchanged ==
    RanTwiceUnchanged =>
        /\ run.old_world
        /\ IsSome(run.after.diff)
        /\ Get(run.after.diff).status = "unchanged"
        /\ Get(run.after.diff).changes.added_instances = <<>>
        /\ Get(run.after.diff).changes.removed_instances = <<>>
        /\ Get(run.after.diff).changes.modified_instances = <<>>

\* The case of C28 that fails: the second run over the unchanged project
\* with Shape = Enum.PartType.Ball reports game/Workspace/A as modified,
\* Shape having been read back from world.json as a String.
C28_EnumReportedAsChanged ==
    /\ RanTwiceUnchanged
    /\ IsSome(run.after.diff)
    /\ Get(run.after.diff).status = "changed"
    /\ \E i \in 1..Len(Get(run.after.diff).changes.modified_instances) :
          \E e \in {Get(run.after.diff).changes.modified_instances[i]} :
              /\ e.path = "game/Workspace/A"
              /\ DOMAIN e.property_changes = {"Shape"}
              /\ e.property_changes["Shape"].old = DebugFmt(PvString("Enum.PartType.Ball"))
              /\ e.property_changes["Shape"].new = DebugFmt(PvEnum("Enum.PartType.Ball"))
              /\ e.spatial_change = None

\* Lenses on two consecutive runs: the tree a run loads, the tree a
\* world.json holds (if any), the texts world.json may hold after a run
\* over a project, and the reports of a diff of the tree of project g
\* against the tree in a world.json.
ProjectIds == 1..Len(Projects)
LoadedTrees == [g \in ProjectIds |-> Get(load_project(GameDir(g)).val)]
TreeIn(world) ==
    IF IsSome(world) /\ de_instance(Get(world)).ok
        THEN Some(Get(de_instance(Get(world)).val))
    ELSE None
WorldsOf ==
    [g \in ProjectIds |->
        UNION {{Some(w) : w \in to_string_pretty(t)} : t \in {LoadedTrees[g]}}]
DiffsAgainst(world, g) ==
    UNION {{Some(d) : d \in compare_worlds(old, new)} :
             old \in {Get(TreeIn(world))}, new \in {LoadedTrees[g]}}
AllWorlds == UNION {WorldsOf[p] : p \in ProjectIds}
DiffsFrom == [w \in AllWorlds |-> [g \in ProjectIds |-> DiffsAgainst(w, g)]]
KnownWorld(world) == IsSome(world) /\ Get(world).j = "object" /\ world \in AllWorlds
RunLoaded(r) == r.n >= 1 /\ r.result # "err"

\* C30: the previous tree of a diff is what results/world.json held when
\* the run started, and every run whose load succeeds leaves its own tree
\* in world.json, also when the strict gate ends it with exit code 1; so
\* the diff of a run that follows a gated run is taken against the tree
\* of the gated run.
C30_DiffAgainstWorldAtStartOfRun ==
    /\ RunLoaded(run) => run.after.world \in WorldsOf[run.game]
    /\ RunLoaded(run) /\ run.options.diff =>
          IF KnownWorld(run.before.world)
              THEN run.after.diff \in DiffsFrom[run.before.world][run.game]
          ELSE TreeIn(run.before.world) = None /\ run.after.diff = run.before.diff
    /\ run.n = 2 => run.before = run.prior.after
    /\ (run.n = 2 /\ RunLoaded(run) /\ run.options.diff /\ run.prior.result = "exit1") =>
          \E w \in WorldsOf[run.prior.game] : run.after.diff \in DiffsFrom[w][run.game]

\* The case of C30: the results of a completed run over the second
\* project are on disk; a strict run over the third project (one script) is
\* stopped by the gate because the analyzer reports an error; the next
\* run, with --diff over the same project, reports "unchanged" (a diff
\* against the completed run would report the Parts removed).
C30_DiffAfterGatedRun ==
    /\ run.n = 2
    /\ KnownWorld(run.prior.before.world)
    /\ run.prior.before.world \in WorldsOf[2]
    /\ run.prior.game = 3
    /\ run.prior.result = "exit1" /\ run.prior.analysis = "errors"
    /\ run.game = 3 /\ run.options.diff /\ run.result # "err"
    /\ IsSome(run.after.diff)
    /\ Get(run.after.diff).status = "unchanged"
    /\ \A w \in WorldsOf[2] : \A d \in DiffsFrom[w][3] :
          Get(d).status = "changed" /\ Len(Get(d).changes.removed_instances) > 0
====
